---- MODULE Spec2Model ----
(***************************************************************************)
(* Ingestion pipeline of jobspy-service/main.py: the search_runs, jobs and *)
(* user_jobs tables of the storage collaborator, and the handlers          *)
(* scrape_jobs, poll_queue and cleanup_stuck_searches running in service   *)
(* instances that share the storage.  One step of a handler is one call of *)
(* a collaborator (a storage request, a scrape) together with the local    *)
(* computation that follows it up to the next call.                        *)
(***************************************************************************)
EXTENDS Naturals, Integers, Sequences, FiniteSets, TLC

\* ------------------------------------------------------------------ bounds
\* Largest number of rows one scrape call returns.
MaxRows == 2
\* Number of times the clock advances, and the minutes of one advance.
MaxTicks == 1
TickMinutes == 6
\* Largest batch_size a poll_queue request carries.
MaxBatch == 2

\* ------------------------------------------------------- program constants
\* timedelta(minutes=5) of cleanup_stuck_searches.
StaleMinutes == 5

\* ------------------------------------------------------------ value spaces
Procs == {"p1", "p2"}
RunIds == {"r1", "r2"}
Sites == {"indeed", "linkedin"}
NoRun == ""
NoUser == ""
Users == {"u1"}
\* Messages of the exceptions the scrape collaborator raises; the second is
\* longer than 50 characters.
ErrMsgs == {"blocked", "long-error-text"}
\* Site lists of the /scrape requests.
RequestSiteLists ==
    {<<"indeed">>, <<"indeed", "linkedin">>, <<"indeed", "indeed">>, << >>}
\* The /scrape requests: run_id and user_id are optional.
Requests ==
    [run_id : {NoRun} \cup RunIds, user_id : {NoUser} \cup Users,
     site_name : RequestSiteLists]
\* The /scrape requests of the instances that race for one run.
RaceRequests == {[run_id |-> "r1", user_id |-> "u1", site_name |-> <<"indeed">>]}

None == << >>
Some(x) == <<x>>

\* ------------------------------------------------------------------ texts
\* str(e)[:50]
Trunc50(msg) == IF msg = "long-error-text" THEN "long-error-text[:50]" ELSE msg

\* The status strings of site_statuses: "pending", "processing",
\* "completed: {n} jobs", "completed: 0 saved (duplicates)", "failed: {why}".
StPending == [tag |-> "pending", n |-> 0, why |-> ""]
StProcessing == [tag |-> "processing", n |-> 0, why |-> ""]
StCompleted(n) == [tag |-> "completed", n |-> n, why |-> "jobs"]
StDuplicates == [tag |-> "completed", n |-> 0, why |-> "saved (duplicates)"]
StFailed(why) == [tag |-> "failed", n |-> 0, why |-> why]

\* Variant: a completion with no jobs does not count as completed.
StartsWithCompletedSomeJobs(st) == st.tag = "completed" /\ st.n > 0

\* status.startswith("completed")
StartsWithCompleted(st) == st.tag = "completed"
\* "failed" in status
ContainsFailed(st) == st.tag = "failed"

\* An error text: either one text or the "; "-joined "{site}: {status}" parts.
MsgText(t) == [kind |-> "text", text |-> t, parts |-> << >>]
MsgJoin(parts) == [kind |-> "join", text |-> "", parts |-> parts]
TimeoutMsg == MsgText("Request timed out - Render free tier has 30s HTTP timeout limit")

\* ------------------------------------------------------------------ state
VARIABLES
    supabase,    \* whether the storage client is configured
    now,         \* the clock, in minutes
    ticks,       \* how often the clock advanced
    search_runs, \* table search_runs: run id -> row
    jobs,        \* table jobs: the job_url of every stored row
    user_jobs,   \* table user_jobs: the (user_id, job_url) links
    ctx,         \* per service instance: the handler it runs and its locals
    job_rows,    \* table jobs, row by row: id, job_url and the other fields
    link_rows,   \* table user_jobs, row by row: user_id, job_id, status
    calls,       \* per caller of save_job_to_database: its position and locals
    users,       \* table users: user id -> row
    resend,      \* the email-send collaborator: its API key, the calls it got
    em,          \* send_email_to_user: its position and locals
    utc_day,     \* the clock of the email service: the current UTC day
    rd,          \* render_email_template: its argument, the documents it gave
    bt,          \* send_emails_to_subscribed_users: its position and locals
    lg,          \* get_logo_for_job: its argument, the network, its result
    fl           \* fetch_logos_for_jobs: its argument, its futures, its results

\* The variables of the email service, and those of the request handlers.
email_vars == <<users, resend, em>>
main_vars == <<supabase, now, ticks, search_runs, jobs, user_jobs, ctx>>

\* The variables of the row-level view of the store and of the email
\* service, which the request handlers leave alone.
more_vars == <<utc_day, rd, bt, lg, fl>>
aside == <<job_rows, link_rows, calls, email_vars, more_vars>>

vars == <<supabase, now, ticks, search_runs, jobs, user_jobs, ctx, aside>>

\* The states of render_email_template, send_emails_to_subscribed_users and
\* get_logo_for_job before they are called.
IdleRd == [jobs |-> << >>, docs |-> << >>]
IdleBt ==
    [pc |-> "idle", users |-> << >>, i |-> 0, sent_count |-> 0, failed_count |-> 0,
     details |-> << >>, result |-> << >>]
IdleFl == [pc |-> "idle", jobs |-> << >>, pending |-> {}, resolved |-> << >>,
           results |-> << >>]
IdleLg ==
    [pc |-> "idle", job_data |-> << >>, fetch |-> "", probe |-> "", result |-> << >>]

\* The locals of send_email_to_user before it is called.
IdleEm == [pc |-> "idle", user_id |-> "", user |-> << >>, keywords |-> << >>,
           user_jobs |-> << >>, jobs_by_id |-> << >>, result |-> << >>]

\* The locals of an idle instance.
IdleCtx ==
    [op |-> "idle", pc |-> "idle",
     \* scrape_jobs
     run_id |-> NoRun, user_id |-> NoUser, site_name |-> << >>,
     site_statuses |-> << >>, i |-> 0, jobs_for_site |-> << >>,
     saved_count |-> 0, current_count |-> 0, all_jobs_list |-> << >>,
     exc |-> None, response |-> None,
     \* poll_queue
     batch_size |-> 0, runs |-> << >>, k |-> 0, processed |-> 0,
     details |-> << >>,
     \* cleanup_stuck_searches
     stuck_searches |-> << >>, updated_count |-> 0,
     \* history of the invocation of scrape_jobs: per loop iteration the site,
     \* what the scrape call did, the rows it returned and the saved-count;
     \* the jobs_found of the run when the invocation began; the number of
     \* finalizing writes
     hist |-> << >>, jf0 |-> 0, finals |-> 0]

\* ------------------------------------------------------- sequences helpers
RECURSIVE SeqSum(_)
SeqSum(s) == IF s = << >> THEN 0 ELSE Head(s) + SeqSum(Tail(s))

RECURSIVE SelectSeqBy(_, _)
\* the elements of s that are in set S, in order
SelectSeqBy(s, S) ==
    IF s = << >> THEN << >>
    ELSE IF Head(s) \in S THEN <<Head(s)>> \o SelectSeqBy(Tail(s), S)
    ELSE SelectSeqBy(Tail(s), S)

RECURSIVE DictKeys(_)
\* the keys of a dict filled in the order of s: first occurrences, in order
DictKeys(s) ==
    IF s = << >> THEN << >>
    ELSE LET init == DictKeys(SubSeq(s, 1, Len(s) - 1))
         IN  IF \E j \in 1..Len(init) : init[j] = s[Len(s)]
             THEN init ELSE Append(init, s[Len(s)])

Range(s) == {s[j] : j \in 1..Len(s)}

\* ------------------------------------------------- update_search_run_status
\* search_runs.jobs_found read by update_search_run_status (NULL reads as 0)
CurrentCount(row) == row.jobs_found

\* Variant: the count of the site replaces the stored count.
NewJobsFoundOverwrite(current_count, jobs_found) == jobs_found

\* update_data["jobs_found"] = current_count + jobs_found
NewJobsFound(current_count, jobs_found) == current_count + jobs_found

\* Variant: a status update given no jobs_found writes jobs_found = 0.
UpdateDataZeroCount(status, error, jobs_found, increment_only, t) ==
    (IF increment_only THEN << >>
     ELSE ("status" :> status)
          @@ (IF status = "running" THEN "started_at" :> Some(t)
              ELSE IF status \in {"success", "failed"} THEN "completed_at" :> Some(t)
              ELSE << >>)
          @@ (IF error # None THEN "error_message" :> error ELSE << >>))
    @@ ("jobs_found" :> (IF jobs_found # None THEN jobs_found[1] ELSE 0))

\* Variant: increment_only is ignored, the status is always written.
UpdateDataStatusAlways(status, error, jobs_found, increment_only, t) ==
    ("status" :> status)
    @@ (IF status = "running" THEN "started_at" :> Some(t)
        ELSE IF status \in {"success", "failed"} THEN "completed_at" :> Some(t)
        ELSE << >>)
    @@ (IF error # None THEN "error_message" :> error ELSE << >>)
    @@ (IF jobs_found # None THEN "jobs_found" :> jobs_found[1] ELSE << >>)

\* The update_data dict: status is written unless increment_only, with the
\* timestamp its value asks for and the error if one is given; jobs_found
\* (None, or Some(the new total)) is written whenever it is given.
UpdateData(status, error, jobs_found, increment_only, t) ==
    (IF increment_only THEN << >>
     ELSE ("status" :> status)
          @@ (IF status = "running" THEN "started_at" :> Some(t)
              ELSE IF status \in {"success", "failed"} THEN "completed_at" :> Some(t)
              ELSE << >>)
          @@ (IF error # None THEN "error_message" :> error ELSE << >>))
    @@ (IF jobs_found # None THEN "jobs_found" :> jobs_found[1] ELSE << >>)

\* supabase.table("search_runs").update(update_data).eq("id", run_id)
ApplyUpdate(table, run_id, update_data) ==
    [r \in DOMAIN table |->
        IF r = run_id
        THEN [f \in DOMAIN table[r] |->
                 IF f \in DOMAIN update_data THEN update_data[f] ELSE table[r][f]]
        ELSE table[r]]

\* The write of update_search_run_status: nothing without a storage client
\* or a run id, nothing when update_data is empty.
\* Variant: the update is sent whether or not the storage is configured.
UpdateRunUnguarded(table, sb, run_id, status, error, jobs_found, increment_only, t) ==
    IF run_id = NoRun THEN table
    ELSE ApplyUpdate(table, run_id,
                     UpdateData(status, error, jobs_found, increment_only, t))

UpdateRun(table, sb, run_id, status, error, jobs_found, increment_only, t) ==
    IF ~sb \/ run_id = NoRun THEN table
    ELSE LET update_data == UpdateData(status, error, jobs_found, increment_only, t)
         IN  IF DOMAIN update_data # {}
             THEN ApplyUpdate(table, run_id, update_data) ELSE table

\* ------------------------------------------------------- log_final_status
CompletedCount(site_statuses) ==
    Cardinality({s \in DOMAIN site_statuses : StartsWithCompleted(site_statuses[s])})

OverallStatus(site_statuses) ==
    IF CompletedCount(site_statuses) = Cardinality(DOMAIN site_statuses) THEN "SUCCESS"
    ELSE IF CompletedCount(site_statuses) > 0 THEN "PARTIAL SUCCESS"
    ELSE "FAILED"

\* Variant: a partial success is stored as failed.
DbStatusAllOrNothing(site_statuses) ==
    IF CompletedCount(site_statuses) = Cardinality(DOMAIN site_statuses) THEN "success"
    ELSE "failed"

DbStatus(site_statuses) ==
    IF CompletedCount(site_statuses) = Cardinality(DOMAIN site_statuses) THEN "success"
    ELSE IF CompletedCount(site_statuses) > 0 THEN "success"
    ELSE "failed"

\* "; ".join(f"{site}: {status}" for the sites whose status holds "failed"),
\* in the order of the dict, whose keys are those of site_name
FailedSites(site_statuses, site_name) ==
    LET keys == DictKeys(site_name)
        failed == {s \in DOMAIN site_statuses : ContainsFailed(site_statuses[s])}
        order == SelectSeqBy(keys, failed)
    IN  [j \in 1..Len(order) |-> [site |-> order[j], status |-> site_statuses[order[j]]]]

\* Variant: the failed sites are reported whatever the outcome.
FinalErrorAlways(site_statuses, site_name) ==
    IF \E s \in DOMAIN site_statuses : ContainsFailed(site_statuses[s])
    THEN Some(MsgJoin(FailedSites(site_statuses, site_name)))
    ELSE None

\* the error argument of the finalizing update
FinalError(site_statuses, site_name) ==
    IF DbStatus(site_statuses) = "failed"
    THEN Some(MsgJoin(FailedSites(site_statuses, site_name)))
    ELSE None

\* The write of log_final_status(site_statuses, total, False, run_id).
LogFinalStatus(table, sb, run_id, site_statuses, site_name, t) ==
    IF run_id # NoRun
    THEN UpdateRun(table, sb, run_id, DbStatus(site_statuses),
                   FinalError(site_statuses, site_name), None, FALSE, t)
    ELSE table

\* ------------------------------------------------------ save_job_to_database
\* One call: the insert into jobs (insert_error: the insert raises an error
\* that is no uniqueness conflict), on a uniqueness conflict the lookup of the
\* existing row, then the insert of the link, whose uniqueness conflict is
\* ignored. The result is the tables and the job id (None on failure).
SaveJob(db, job, user_id, insert_error) ==
    IF insert_error THEN [db |-> db, job_id |-> None]
    ELSE LET withJob == [db EXCEPT !.jobs = @ \cup {job.job_url}]
             withLink == IF user_id # NoUser
                         THEN [withJob EXCEPT !.user_jobs =
                                  @ \cup {<<user_id, job.job_url>>}]
                         ELSE withJob
         IN  [db |-> withLink, job_id |-> Some(job.job_url)]

RECURSIVE SaveJobs(_, _, _, _, _)
\* save_jobs_to_database over jobs_list[j..]: the tables and saved_count
SaveJobs(db, jobs_list, user_id, errors, j) ==
    IF j > Len(jobs_list) THEN [db |-> db, saved_count |-> 0]
    ELSE LET one == SaveJob(db, jobs_list[j], user_id, j \in errors)
             rest == SaveJobs(one.db, jobs_list, user_id, errors, j + 1)
         IN  [db |-> rest.db,
              saved_count |-> rest.saved_count + (IF one.job_id # None THEN 1 ELSE 0)]

\* save_jobs_to_database(jobs_list, user_id)
SaveJobsToDatabase(db, sb, jobs_list, user_id, errors) ==
    IF ~sb \/ user_id = NoUser THEN [db |-> db, saved_count |-> 0]
    ELSE SaveJobs(db, jobs_list, user_id, errors, 1)

\* ------------------------------------------------------------ scrape_jobs
db == [jobs |-> jobs, user_jobs |-> user_jobs]

\* The rows the scrape collaborator returns for a site, normalized to
\* JobResponse: row j of a site has the job_url <<site, j>>.
\* Its company_logo_url is None until the logos are fetched.
JobsOfSite(site, n) ==
    [j \in 1..n |-> [site |-> site, job_url |-> <<site, j>>,
                     company_logo_url |-> None]]

\* What fetch_company_logos does for the jobs of a site: it returns a logo
\* for every job, or it raises.
LogoOutcomes == {"ok", "raised"}

\* The jobs of the site after the logo fetch: each job carries the logo
\* resolved for it; when the fetch raised, the warning is logged and the
\* jobs stay as they were.
WithLogos(jobs_for_site, logos) ==
    IF logos = "ok"
    THEN [j \in 1..Len(jobs_for_site) |->
             [jobs_for_site[j] EXCEPT
                 !.company_logo_url = Some(<<"logo", jobs_for_site[j].job_url>>)]]
    ELSE jobs_for_site

\* Variant: a failed site ends the loop.
NextSiteStopOnFailure(c) ==
    IF c.i < Len(c.site_name) /\ c.site_statuses[c.site_name[c.i]].tag # "failed"
    THEN [c EXCEPT !.i = @ + 1, !.pc = "site", !.jobs_for_site = << >>,
                   !.saved_count = 0, !.current_count = 0]
    ELSE [c EXCEPT !.pc = "finalize", !.jobs_for_site = << >>,
                   !.saved_count = 0, !.current_count = 0]

\* The loop moves to the next site, or ends.
NextSite(c) ==
    IF c.i < Len(c.site_name)
    THEN [c EXCEPT !.i = @ + 1, !.pc = "site", !.jobs_for_site = << >>,
                   !.saved_count = 0, !.current_count = 0]
    ELSE [c EXCEPT !.pc = "finalize", !.jobs_for_site = << >>,
                   !.saved_count = 0, !.current_count = 0]

\* The start of scrape_jobs up to its first site: site_statuses filled with
\* "pending", then the import of the scrape library (lib_ok: it imports).
BeginScrape(c, run_id, user_id, site_name, lib_ok, jf) ==
    LET c1 == [c EXCEPT !.run_id = run_id, !.user_id = user_id,
                        !.site_name = site_name,
                        !.site_statuses = [s \in Range(site_name) |-> StPending],
                        !.all_jobs_list = << >>, !.i = 1, !.exc = None,
                        !.response = None, !.hist = << >>,
                        !.jf0 = jf, !.finals = 0]
    IN  IF lib_ok
        THEN [c1 EXCEPT !.pc = IF site_name = << >> THEN "finalize" ELSE "site"]
        ELSE [c1 EXCEPT !.site_statuses =
                            [s \in Range(site_name) |-> StFailed("library error")],
                        !.pc = "final_import"]

\* The status of a site whose jobs were saved, by its saved_count.
SavedStatus(saved_count) ==
    IF saved_count > 0 THEN StCompleted(saved_count) ELSE StDuplicates

\* The end of a site's iteration once its jobs are saved and counted.
SiteSaved(c) ==
    NextSite([c EXCEPT !.site_statuses[c.site_name[c.i]] = SavedStatus(c.saved_count),
                       !.all_jobs_list = @ \o c.jobs_for_site,
                       !.hist[Len(c.hist)].saved = c.saved_count])

\* POST /scrape: the request is accepted, the run is marked running.
Scrape(p, requests) ==
    /\ ctx[p].op = "idle" /\ ctx[p].pc = "idle"
    /\ \E request \in requests, lib_ok \in BOOLEAN :
          /\ search_runs' = UpdateRun(search_runs, supabase, request.run_id,
                                      "running", None, None, FALSE, now)
          /\ ctx' = [ctx EXCEPT ![p] =
                        BeginScrape([@ EXCEPT !.op = "scrape"], request.run_id,
                                    request.user_id, request.site_name, lib_ok,
                                    IF request.run_id = NoRun THEN 0
                                    ELSE search_runs[request.run_id].jobs_found)]
    /\ UNCHANGED <<aside, supabase, now, ticks, jobs, user_jobs>>

\* Variant: a logo fetch that raises reaches the handler of the site, which
\* marks the site failed and drops its jobs.
AfterLogosRaising(c, found, logos) ==
    LET site == c.site_name[c.i]
    IN  IF logos = "raised"
        THEN NextSite([found EXCEPT !.site_statuses[site] = StFailed("logo error"),
                                    !.jobs_for_site = << >>])
        ELSE IF c.user_id # NoUser
        THEN [found EXCEPT !.pc = "save"]
        ELSE NextSite([found EXCEPT
                          !.site_statuses[site] = StCompleted(Len(found.jobs_for_site)),
                          !.all_jobs_list = @ \o found.jobs_for_site])

\* After the logo fetch, whatever it did: the save when the request has a
\* user, otherwise the site is completed with the number of its jobs.
AfterLogos(c, found, logos) ==
    LET site == c.site_name[c.i]
    IN  IF c.user_id # NoUser
        THEN [found EXCEPT !.pc = "save"]
        ELSE NextSite([found EXCEPT
                          !.site_statuses[site] = StCompleted(Len(found.jobs_for_site)),
                          !.all_jobs_list = @ \o found.jobs_for_site])

\* One iteration of the per-site loop up to the save: the scrape call raises,
\* returns nothing, or returns n rows, whose logos are then fetched.
ScrapeSite(p, errs, logo_outcomes) ==
    LET c == ctx[p]
        site == c.site_name[c.i]
        called(outcome, n, logos) ==
            [c EXCEPT !.hist = Append(@, [site |-> site, outcome |-> outcome,
                                          rows |-> n, saved |-> 0,
                                          logos |-> logos])]
    IN  /\ c.pc = "site"
        /\ \/ \E e \in errs :
                ctx' = [ctx EXCEPT ![p] =
                           NextSite([called("raised", 0, "none") EXCEPT
                                        !.site_statuses[site] = StFailed(Trunc50(e))])]
           \/ ctx' = [ctx EXCEPT ![p] =
                         NextSite([called("empty", 0, "none") EXCEPT
                                      !.site_statuses[site] = StCompleted(0)])]
           \/ \E n \in 1..MaxRows, logos \in logo_outcomes :
                LET found == [called("rows", n, logos) EXCEPT
                                 !.jobs_for_site = WithLogos(JobsOfSite(site, n), logos)]
                IN  ctx' = [ctx EXCEPT ![p] = AfterLogos(c, found, logos)]
        /\ UNCHANGED <<aside, supabase, now, ticks, search_runs, jobs, user_jobs>>

\* save_jobs_to_database for the site's jobs; errors are the jobs whose insert
\* the store refuses (none when the store is reliable).
SaveSite(p, reliable) ==
    LET c == ctx[p]
    IN  /\ c.pc = "save"
        /\ \E errors \in SUBSET (1..Len(c.jobs_for_site)) :
             LET res == SaveJobsToDatabase(db, supabase, c.jobs_for_site,
                                           c.user_id, errors)
                 counted == [c EXCEPT !.saved_count = res.saved_count]
             IN  /\ (supabase /\ ~reliable) \/ errors = {}
                 /\ jobs' = res.db.jobs
                 /\ user_jobs' = res.db.user_jobs
                 /\ ctx' = [ctx EXCEPT ![p] =
                               IF c.run_id # NoRun /\ supabase
                               THEN [counted EXCEPT !.pc = "inc_read"]
                               ELSE SiteSaved(counted)]
        /\ UNCHANGED <<aside, supabase, now, ticks, search_runs>>

\* update_search_run_status(run_id, "", jobs_found=saved_count,
\* increment_only=True): the read of the current jobs_found ...
IncRead(p) ==
    LET c == ctx[p]
    IN  /\ c.pc = "inc_read"
        /\ ctx' = [ctx EXCEPT ![p] =
                      [c EXCEPT !.current_count = CurrentCount(search_runs[c.run_id]),
                                !.pc = "inc_write"]]
        /\ UNCHANGED <<aside, supabase, now, ticks, search_runs, jobs, user_jobs>>

\* ... and the write of the new total.
IncWrite(p) ==
    LET c == ctx[p]
    IN  /\ c.pc = "inc_write"
        /\ search_runs' = UpdateRun(search_runs, supabase, c.run_id, "", None,
                              Some(NewJobsFound(c.current_count, c.saved_count)),
                              TRUE, now)
        /\ ctx' = [ctx EXCEPT ![p] = SiteSaved(c)]
        /\ UNCHANGED <<aside, supabase, now, ticks, jobs, user_jobs>>

\* --------------------------------------------------------------- poll_queue
\* return {"error": "Database not configured"}
NotConfigured == [kind |-> "error", error |-> "Database not configured"]

RECURSIVE OrderByCreated(_, _)
\* the run ids of S, oldest created_at first
OrderByCreated(table, S) ==
    IF S = {} THEN << >>
    ELSE LET r == CHOOSE x \in S : \A y \in S : table[x].created_at <= table[y].created_at
         IN  <<r>> \o OrderByCreated(table, S \ {r})

\* .limit(n)
Limit(s, n) == SubSeq(s, 1, IF n < Len(s) THEN n ELSE Len(s))

\* select ... eq("status", "pending").order("created_at").limit(batch_size)
PendingRuns(table, batch_size) ==
    Limit(OrderByCreated(table, {r \in DOMAIN table : table[r].status = "pending"}),
          batch_size)

\* Variant: the claim does not test the status.
ClaimRowsAnyStatus(table, run_id) == {r \in DOMAIN table : r = run_id}

\* The rows the claim updates: .eq("id", run_id).eq("status", "pending")
ClaimRows(table, run_id) ==
    {r \in DOMAIN table : r = run_id /\ table[r].status = "pending"}

\* site_name of the request built from the stored parameters
SiteNameOf(site) ==
    LET s == IF site = "" THEN "indeed" ELSE site
    IN  IF s = "all" THEN <<"linkedin", "indeed">> ELSE <<s>>

Detail(run_id, status, reason, n) ==
    [run_id |-> run_id, status |-> status, reason |-> reason, jobs |-> n]

\* The loop over the fetched runs moves on, or poll_queue returns.
NextRun(c) ==
    IF c.k < Len(c.runs)
    THEN [c EXCEPT !.k = @ + 1, !.pc = "claim"]
    ELSE [c EXCEPT !.pc = "done"]

\* How scrape_jobs ends: a response to the HTTP caller, or back in poll_queue.
Returned(c, resp) ==
    [c EXCEPT !.response = Some(resp),
              !.pc = IF c.op = "poll" THEN "returned" ELSE "done"]

\* The locals of scrape_jobs are gone once poll_queue goes on.
Forget(c) ==
    [c EXCEPT !.run_id = NoRun, !.user_id = NoUser, !.site_name = << >>,
              !.site_statuses = << >>, !.i = 0, !.all_jobs_list = << >>,
              !.exc = None, !.response = None, !.hist = << >>, !.jf0 = 0,
              !.finals = 0]

Raised(c, text) ==
    [c EXCEPT !.response = Some([kind |-> "http500", success |-> FALSE,
                                 jobs |-> << >>, total_results |-> 0]),
              !.exc = Some(text),
              !.pc = IF c.op = "poll" THEN "poll_except" ELSE "done"]

\* The sites still pending or processing are marked failed (the handler of
\* an exception that escaped the loop).
MarkUnprocessed(site_statuses, text) ==
    [s \in DOMAIN site_statuses |->
        IF site_statuses[s] \in {StPending, StProcessing}
        THEN StFailed(Trunc50(text)) ELSE site_statuses[s]]

\* Variant: the success flag follows the run, not the job list.
JobSearchResponseAlwaysSuccess(all_jobs_list) ==
    [kind |-> "ok", success |-> TRUE, jobs |-> all_jobs_list,
     total_results |-> Len(all_jobs_list)]

\* JobSearchResponse(success=len(all_jobs_list) > 0, jobs=all_jobs_list,
\* total_results=len(all_jobs_list), ...)
JobSearchResponse(all_jobs_list) ==
    [kind |-> "ok", success |-> Len(all_jobs_list) > 0, jobs |-> all_jobs_list,
     total_results |-> Len(all_jobs_list)]

\* All sites processed: log_final_status, then the response.
Finalize(p) ==
    LET c == ctx[p]
    IN  /\ c.pc = "finalize"
        /\ search_runs' = LogFinalStatus(search_runs, supabase, c.run_id,
                                         c.site_statuses, c.site_name, now)
        /\ ctx' = [ctx EXCEPT ![p] =
                      Returned([c EXCEPT !.finals = @ + 1],
                               JobSearchResponse(c.all_jobs_list))]
        /\ UNCHANGED <<aside, supabase, now, ticks, jobs, user_jobs>>

\* The import failed: log_final_status, then HTTPException(500) is raised
\* inside the outer try.
FinalImport(p) ==
    LET c == ctx[p]
    IN  /\ c.pc = "final_import"
        /\ search_runs' = LogFinalStatus(search_runs, supabase, c.run_id,
                                         c.site_statuses, c.site_name, now)
        /\ ctx' = [ctx EXCEPT ![p] =
                      [c EXCEPT !.finals = @ + 1, !.pc = "final_except",
                                !.exc = Some("500: JobSpy library not installed properly")]]
        /\ UNCHANGED <<aside, supabase, now, ticks, jobs, user_jobs>>

\* The outer except: unprocessed sites are marked failed, log_final_status,
\* then HTTPException(500) reaches the caller.
FinalExcept(p) ==
    LET c == ctx[p]
        marked == MarkUnprocessed(c.site_statuses, c.exc[1])
    IN  /\ c.pc = "final_except"
        /\ search_runs' = LogFinalStatus(search_runs, supabase, c.run_id,
                                         marked, c.site_name, now)
        /\ ctx' = [ctx EXCEPT ![p] =
                      Raised([c EXCEPT !.finals = @ + 1, !.site_statuses = marked],
                             "500: Failed to scrape jobs")]
        /\ UNCHANGED <<aside, supabase, now, ticks, jobs, user_jobs>>

\* POST /worker/poll-queue: the pending runs are fetched.
PollQueue(p) ==
    /\ ctx[p].op = "idle" /\ ctx[p].pc = "idle"
    /\ \E batch_size \in 1..MaxBatch :
          LET runs == IF supabase THEN PendingRuns(search_runs, batch_size) ELSE << >>
          IN  ctx' = [ctx EXCEPT ![p] =
                         [@ EXCEPT !.op = "poll", !.runs = runs,
                                   !.batch_size = batch_size,
                                   !.k = IF runs = << >> THEN 0 ELSE 1,
                                   !.response = IF supabase THEN None
                                                ELSE Some(NotConfigured),
                                   !.pc = IF runs = << >> THEN "done" ELSE "claim"]]
    /\ UNCHANGED <<aside, supabase, now, ticks, search_runs, jobs, user_jobs>>

\* scrape_jobs returned: the run is counted as processed.
PollResume(p) ==
    LET c == ctx[p]
    IN  /\ c.op = "poll" /\ c.pc = "returned"
        /\ ctx' = [ctx EXCEPT ![p] =
                      NextRun(Forget([c EXCEPT !.processed = @ + 1,
                          !.details = Append(@, Detail(c.runs[c.k], "completed", "",
                                                       c.response[1].total_results))]))]
        /\ UNCHANGED <<aside, supabase, now, ticks, search_runs, jobs, user_jobs>>

\* The conditional pending -> running update of the k-th fetched run.
PollClaim(p) ==
    LET c == ctx[p]
        run_id == c.runs[c.k]
        claimed == ClaimRows(search_runs, run_id)
    IN  /\ c.op = "poll" /\ c.pc = "claim"
        /\ search_runs' = [r \in DOMAIN search_runs |->
                              IF r \in claimed
                              THEN [search_runs[r] EXCEPT !.status = "running",
                                                          !.started_at = Some(now)]
                              ELSE search_runs[r]]
        /\ ctx' = [ctx EXCEPT ![p] =
                      IF claimed # {}
                      THEN [c EXCEPT !.pc = "map"]
                      ELSE NextRun([c EXCEPT !.details =
                               Append(@, Detail(run_id, "skipped", "already claimed", 0))])]
        /\ UNCHANGED <<aside, supabase, now, ticks, jobs, user_jobs>>

\* The claim request raises: the run is skipped.
PollClaimFailed(p) ==
    LET c == ctx[p]
    IN  /\ c.op = "poll" /\ c.pc = "claim"
        /\ ctx' = [ctx EXCEPT ![p] =
                      NextRun([c EXCEPT !.details =
                          Append(@, Detail(c.runs[c.k], "skipped", "claim_failed", 0))])]
        /\ UNCHANGED <<aside, supabase, now, ticks, search_runs, jobs, user_jobs>>

\* The stored parameters are mapped to a request and scrape_jobs starts, or
\* the mapping raises.
PollMap(p) ==
    LET c == ctx[p]
        run_id == c.runs[c.k]
        row == search_runs[run_id]
    IN  /\ c.op = "poll" /\ c.pc = "map"
        /\ IF row.params_ok
           THEN \E lib_ok \in BOOLEAN :
                  /\ search_runs' = UpdateRun(search_runs, supabase, run_id, "running",
                                              None, None, FALSE, now)
                  /\ ctx' = [ctx EXCEPT ![p] =
                                BeginScrape(c, run_id, row.user_id, SiteNameOf(row.site),
                                            lib_ok, row.jobs_found)]
           ELSE /\ ctx' = [ctx EXCEPT ![p] =
                              [c EXCEPT !.pc = "poll_except",
                                        !.exc = Some("invalid literal for int()")]]
                /\ UNCHANGED search_runs
        /\ UNCHANGED <<aside, supabase, now, ticks, jobs, user_jobs>>

\* except of the per-run try: the run is finalized as failed.
PollExcept(p) ==
    LET c == ctx[p]
        run_id == c.runs[c.k]
    IN  /\ c.op = "poll" /\ c.pc = "poll_except"
        /\ search_runs' = UpdateRun(search_runs, supabase, run_id, "failed",
                                    Some(MsgText(c.exc[1])), None, FALSE, now)
        /\ ctx' = [ctx EXCEPT ![p] =
                      NextRun(Forget([c EXCEPT !.details =
                                  Append(@, Detail(run_id, "failed", c.exc[1], 0))]))]
        /\ UNCHANGED <<aside, supabase, now, ticks, jobs, user_jobs>>

\* --------------------------------------------------- cleanup_stuck_searches
\* select ... eq("status", "running").lt("created_at", five_minutes_ago)
StuckSearches(table, t) ==
    OrderByCreated(table, {r \in DOMAIN table :
                              /\ table[r].status = "running"
                              /\ table[r].created_at < t - StaleMinutes})

\* POST /cleanup-stuck-searches: the scan.
CleanupScan(p) ==
    /\ ctx[p].op = "idle" /\ ctx[p].pc = "idle"
    /\ LET stuck == IF supabase THEN StuckSearches(search_runs, now) ELSE << >>
       IN  ctx' = [ctx EXCEPT ![p] =
                      [@ EXCEPT !.op = "cleanup", !.stuck_searches = stuck,
                                !.k = IF stuck = << >> THEN 0 ELSE 1,
                                !.response = IF supabase THEN None
                                             ELSE Some(NotConfigured),
                                !.pc = IF stuck = << >> THEN "done" ELSE "sweep"]]
    /\ UNCHANGED <<aside, supabase, now, ticks, search_runs, jobs, user_jobs>>

\* The update of one stuck search to failed.
CleanupSweep(p) ==
    LET c == ctx[p]
    IN  /\ c.op = "cleanup" /\ c.pc = "sweep"
        /\ search_runs' = UpdateRun(search_runs, supabase, c.stuck_searches[c.k],
                                    "failed", Some(TimeoutMsg), None, FALSE, now)
        /\ ctx' = [ctx EXCEPT ![p] =
                      IF c.k < Len(c.stuck_searches)
                      THEN [c EXCEPT !.updated_count = @ + 1, !.k = @ + 1]
                      ELSE [c EXCEPT !.updated_count = @ + 1, !.pc = "done"]]
        /\ UNCHANGED <<aside, supabase, now, ticks, jobs, user_jobs>>

\* -------------------------------------------------------------------- clock
Tick ==
    /\ ticks < MaxTicks
    /\ ticks' = ticks + 1
    /\ now' = now + TickMinutes
    /\ UNCHANGED <<aside, supabase, search_runs, jobs, user_jobs, ctx>>

\* ------------------------------------------------------------ specification
\* A row of search_runs as the frontend inserts it.
NewRun(user_id, site, params_ok, created_at) ==
    [user_id |-> user_id, site |-> site, params_ok |-> params_ok,
     status |-> "pending", jobs_found |-> 0, error_message |-> None,
     created_at |-> created_at, started_at |-> None, completed_at |-> None]

InitRest ==
    /\ now = 1
    /\ ticks = 0
    /\ jobs = {}
    /\ user_jobs = {}
    /\ ctx = [p \in Procs |-> IdleCtx]
    /\ job_rows = {}
    /\ link_rows = {}
    /\ calls = << >>
    /\ users = << >>
    /\ resend = [api_key |-> FALSE, calls |-> << >>]
    /\ em = IdleEm
    /\ utc_day = 0
    /\ rd = IdleRd
    /\ bt = IdleBt
    /\ lg = IdleLg
    /\ fl = IdleFl

\* A row of a run that an earlier invocation finalized with one job found.
OldRun(user_id, site, t) ==
    [NewRun(user_id, site, TRUE, t) EXCEPT
        !.status = "success", !.jobs_found = 1,
        !.started_at = Some(t), !.completed_at = Some(t)]

\* One instance serves a /scrape or a poll-queue request while the other
\* serves the cleanup; run r1 is owned and either queued (for "all" boards or
\* for the default board) or already finalized, r2 has no owner and
\* parameters that may not convert.
Init ==
    /\ supabase \in BOOLEAN
    /\ \E r1 \in {NewRun("u1", "all", TRUE, 0), NewRun("u1", "", TRUE, 0),
                   OldRun("u1", "", 0)},
          ok \in BOOLEAN :
          search_runs = [r \in RunIds |->
                            IF r = "r1" THEN r1 ELSE NewRun(NoUser, "linkedin", ok, 1)]
    /\ InitRest

Pipeline(p, requests, errs, reliable) ==
    \/ Scrape(p, requests)
    \/ ScrapeSite(p, errs, {"ok"})
    \/ SaveSite(p, reliable)
    \/ IncRead(p)
    \/ IncWrite(p)
    \/ Finalize(p)
    \/ FinalImport(p)
    \/ FinalExcept(p)
    \/ PollQueue(p)
    \/ PollClaim(p)
    \/ PollClaimFailed(p)
    \/ PollMap(p)
    \/ PollResume(p)
    \/ PollExcept(p)

Cleanup(p) ==
    \/ CleanupScan(p)
    \/ CleanupSweep(p)

Next ==
    \/ Tick
    \/ Pipeline("p1", Requests, ErrMsgs, FALSE)
    \/ Cleanup("p2")

Spec == Init /\ [][Next]_vars

\* Two instances that serve every kind of request, against a reliable store:
\* both runs are queued for one board, r1 is owned.
InitRace ==
    /\ supabase = TRUE
    /\ search_runs = [r \in RunIds |->
                         IF r = "r1" THEN NewRun("u1", "", TRUE, 0)
                         ELSE NewRun(NoUser, "linkedin", TRUE, 1)]
    /\ InitRest

NextRace ==
    \/ Tick
    \/ \E p \in Procs :
          \/ Pipeline(p, RaceRequests, {"blocked"}, TRUE)
          \/ Cleanup(p)

SpecRace == InitRace /\ [][NextRace]_vars

\* One instance serves one /scrape request against a reliable store, for
\* run r1 or for no run, and the logo fetch of a site succeeds or raises.
ScrapeRequests ==
    [run_id : {NoRun, "r1"}, user_id : {NoUser} \cup Users,
     site_name : {<<"indeed">>, <<"indeed", "linkedin">>}]

InitScrape ==
    /\ supabase \in BOOLEAN
    /\ search_runs = [r \in RunIds |->
                         IF r = "r1" THEN NewRun("u1", "all", TRUE, 0)
                         ELSE OldRun("u1", "", 0)]
    /\ InitRest

NextScrape ==
    \/ Scrape("p1", ScrapeRequests)
    \/ ScrapeSite("p1", {"blocked"}, LogoOutcomes)
    \/ SaveSite("p1", TRUE)
    \/ IncRead("p1")
    \/ IncWrite("p1")
    \/ Finalize("p1")
    \/ FinalImport("p1")
    \/ FinalExcept("p1")

SpecScrape == InitScrape /\ [][NextScrape]_vars

\* ------------------------------- save_job_to_database, statement by statement
\* The callers of save_job_to_database, the users they save for, and the
\* job_data they pass: the job_url and, standing for the other fields, a
\* title, which differs from caller to caller.
Callers == {"c1", "c2"}
SaveUsers == {"u1", "u2"}
JobUrls == {"a", "b"}
TitleOf(p) == IF p = "c1" THEN "t1" ELSE "t2"
JobDatas(p) == [job_url : JobUrls, title : {TitleOf(p)}]

\* The texts of the errors the store raises: a violated uniqueness
\* constraint, or anything else.
UniqueViolation == "duplicate key value violates unique constraint"
OtherError == "connection reset"

\* Variant: no error is taken for a uniqueness conflict.
IsDuplicateNever(error_msg) == FALSE

\* "duplicate" in error_msg.lower() or "unique" in error_msg.lower()
IsDuplicate(error_msg) == error_msg = UniqueViolation

\* The locals of a caller between two calls; last is the call that returned
\* last, until the next call: its arguments, its result, and whether the
\* store raised an error that is no uniqueness conflict.
IdleCall == [pc |-> "idle", job_data |-> None, user_id |-> NoUser,
             job_id |-> None, last |-> None]

\* supabase.table("jobs").insert(job_insert_data): the new row gets a fresh id.
InsertJob(rows, job_data) ==
    rows \cup {[id |-> Cardinality(rows) + 1, job_url |-> job_data.job_url,
                title |-> job_data.title]}

\* supabase.table("jobs").select("id").eq("job_url", ...): existing_job.data
ExistingJob(rows, job_url) == {r \in rows : r.job_url = job_url}

\* Variant: the link is written over an existing one.
UpsertLink(links, user_id, job_id) ==
    {l \in links : ~(l.user_id = user_id /\ l.job_id = job_id)}
        \cup {[user_id |-> user_id, job_id |-> job_id, status |-> "new"]}

\* supabase.table("user_jobs").insert(user_job_data), where the error of a
\* link that exists is ignored.
InsertLink(links, user_id, job_id) ==
    IF \E l \in links : l.user_id = user_id /\ l.job_id = job_id
    THEN links
    ELSE links \cup {[user_id |-> user_id, job_id |-> job_id, status |-> "new"]}

\* return job_id / return None
SaveReturn(c, result, store_error) ==
    [c EXCEPT !.pc = "idle", !.job_data = None, !.user_id = NoUser,
              !.job_id = None,
              !.last = Some([job_url |-> c.job_data[1].job_url,
                             user_id |-> c.user_id, result |-> result,
                             store_error |-> store_error])]

\* save_job_to_database(job_data, user_id) is called.
SaveJobToDatabase(p) ==
    /\ calls[p].pc = "idle"
    /\ \E job_data \in JobDatas(p), user_id \in SaveUsers :
          LET c == [calls[p] EXCEPT !.job_data = Some(job_data),
                                    !.user_id = user_id, !.last = None]
          IN  calls' = [calls EXCEPT ![p] =
                           IF ~supabase THEN SaveReturn(c, None, FALSE)
                           ELSE [c EXCEPT !.pc = "insert"]]
    /\ UNCHANGED <<email_vars, more_vars, supabase, now, ticks, search_runs, jobs, user_jobs, ctx,
                   job_rows, link_rows>>

\* The insert into jobs: it stores the row, or the store raises an error,
\* the uniqueness conflict if a row has the job_url.
InsertJobRow(p) ==
    LET c == calls[p]
        raised(error_msg) ==
            IF IsDuplicate(error_msg) THEN [c EXCEPT !.pc = "lookup"]
            ELSE SaveReturn(c, None, error_msg # UniqueViolation)
    IN  /\ c.pc = "insert"
        /\ \/ /\ ExistingJob(job_rows, c.job_data[1].job_url) = {}
              /\ job_rows' = InsertJob(job_rows, c.job_data[1])
              /\ calls' = [calls EXCEPT ![p] =
                              [c EXCEPT !.pc = "link",
                                        !.job_id = Some(Cardinality(job_rows) + 1)]]
           \/ /\ ExistingJob(job_rows, c.job_data[1].job_url) # {}
              /\ calls' = [calls EXCEPT ![p] = raised(UniqueViolation)]
              /\ UNCHANGED job_rows
           \/ /\ calls' = [calls EXCEPT ![p] = raised(OtherError)]
              /\ UNCHANGED job_rows
        /\ UNCHANGED <<email_vars, more_vars, supabase, now, ticks, search_runs, jobs, user_jobs, ctx,
                       link_rows>>

\* After a uniqueness conflict: the select of the existing row by job_url.
LookupJob(p) ==
    LET c == calls[p]
        existing_job == ExistingJob(job_rows, c.job_data[1].job_url)
    IN  /\ c.pc = "lookup"
        /\ \/ /\ existing_job # {}
              /\ \E r \in existing_job :
                    calls' = [calls EXCEPT ![p] =
                                 [c EXCEPT !.pc = "link", !.job_id = Some(r.id)]]
           \/ /\ existing_job = {}
              /\ calls' = [calls EXCEPT ![p] = SaveReturn(c, None, FALSE)]
           \/ calls' = [calls EXCEPT ![p] = SaveReturn(c, None, TRUE)]
        /\ UNCHANGED <<email_vars, more_vars, supabase, now, ticks, search_runs, jobs, user_jobs, ctx,
                       job_rows, link_rows>>

\* if job_id and user_id: the insert of the link, whose errors are logged or
\* ignored; then return job_id.
LinkJob(p) ==
    LET c == calls[p]
    IN  /\ c.pc = "link"
        /\ \/ /\ link_rows' = IF c.job_id # None /\ c.user_id # NoUser
                              THEN InsertLink(link_rows, c.user_id, c.job_id[1])
                              ELSE link_rows
              /\ calls' = [calls EXCEPT ![p] = SaveReturn(c, c.job_id, FALSE)]
           \/ /\ UNCHANGED link_rows
              /\ calls' = [calls EXCEPT ![p] = SaveReturn(c, c.job_id, TRUE)]
        /\ UNCHANGED <<email_vars, more_vars, supabase, now, ticks, search_runs, jobs, user_jobs, ctx,
                       job_rows>>

\* A job and a link stored before: the user has set the link's status.
StoredJob == [id |-> 1, job_url |-> "a", title |-> "t0"]
StoredLink == [user_id |-> "u1", job_id |-> 1, status |-> "applied"]

\* Callers of save_job_to_database against a store that is empty or holds
\* one job, linked or not.
InitSave ==
    /\ supabase \in BOOLEAN
    /\ now = 1
    /\ ticks = 0
    /\ search_runs = [r \in RunIds |-> NewRun("u1", "", TRUE, 0)]
    /\ jobs = {}
    /\ user_jobs = {}
    /\ ctx = [p \in Procs |-> IdleCtx]
    /\ \E stored \in {<<{}, {}>>, <<{StoredJob}, {}>>, <<{StoredJob}, {StoredLink}>>} :
          job_rows = stored[1] /\ link_rows = stored[2]
    /\ calls = [p \in Callers |-> IdleCall]
    /\ users = << >>
    /\ resend = [api_key |-> FALSE, calls |-> << >>]
    /\ em = IdleEm
    /\ utc_day = 0
    /\ rd = IdleRd
    /\ bt = IdleBt
    /\ lg = IdleLg
    /\ fl = IdleFl

NextSave ==
    \E p \in Callers :
        \/ SaveJobToDatabase(p)
        \/ InsertJobRow(p)
        \/ LookupJob(p)
        \/ LinkJob(p)

SpecSave == InitSave /\ [][NextSave]_vars

\* ------------------------------------------------------------ email_service
\* Texts are sequences of characters. str.lower(), str.strip() and the "in"
\* of two strings:
LowerChar(ch) ==
    CASE ch = "D" -> "d" [] ch = "E" -> "e" [] ch = "V" -> "v"
      [] ch = "O" -> "o" [] ch = "P" -> "p" [] ch = "S" -> "s"
      [] ch = "L" -> "l" [] ch = "I" -> "i"
      [] OTHER -> ch

Lower(text) == [i \in 1..Len(text) |-> LowerChar(text[i])]

RECURSIVE Strip(_)
Strip(text) ==
    IF text = << >> THEN text
    ELSE IF Head(text) = " " THEN Strip(Tail(text))
    ELSE IF text[Len(text)] = " " THEN Strip(SubSeq(text, 1, Len(text) - 1))
    ELSE text

Contains(text, part) ==
    \E i \in 1..(Len(text) + 1 - Len(part)) : SubSeq(text, i, i + Len(part) - 1) = part

\* The stored keywords of a user: absent, a list of texts, or one text.
KwAbsent == [kind |-> "none", items |-> << >>, text |-> << >>]
KwList(items) == [kind |-> "list", items |-> items, text |-> << >>]
KwStr(text) == [kind |-> "str", items |-> << >>, text |-> text]

TextDev == <<"D", "e", "v">>
TextOps == <<"o", "p", "s">>
TextBlank == <<" ">>
TextPaddedOPS == <<" ", "O", "P", "S", " ">>
TextJsonList == <<"[", "\"", "o", "p", "s", "\"", "]">>
TextJsonPo == <<"[", "\"", "p", "o", "\"", "]">>
TextJsonEmptyList == <<"[", "]">>
TextJsonNumber == <<"5">>
TextJsonMixed == <<"[", "\"", "D", "e", "v", "\"", ",", " ", "5", "]">>
TextJsonString == <<"\"", "o", "p", "s", "\"">>
TextJsonBroken == <<"[", "\"", "o", "p", "s", "\"">>

\* A JSON number, and a JSON string: the text between two quotes.
IsNumber(text) ==
    /\ text # << >>
    /\ \A i \in 1..Len(text) : text[i] \in {"0", "1", "2", "3", "4", "5", "6", "7", "8", "9"}

IsString(text) ==
    /\ Len(text) >= 2
    /\ text[1] = "\"" /\ text[Len(text)] = "\""
    /\ \A i \in 2..(Len(text) - 1) : text[i] # "\""

RECURSIVE SplitItems(_, _, _)
\* The texts between the commas that are outside quotes.
SplitItems(text, item, quoted) ==
    IF text = << >> THEN <<item>>
    ELSE IF Head(text) = "\"" THEN SplitItems(Tail(text), Append(item, "\""), ~quoted)
    ELSE IF Head(text) = "," /\ ~quoted THEN <<item>> \o SplitItems(Tail(text), << >>, FALSE)
    ELSE SplitItems(Tail(text), Append(item, Head(text)), quoted)

\* json.loads of a stored text, for numbers, strings and lists of them: it
\* raises, or gives a list or another value; items holds str(k) of the
\* elements of a list.
JsonLoads(text) ==
    LET t == Strip(text)
        Failed == [ok |-> FALSE, is_list |-> FALSE, items |-> << >>]
        NoList == [ok |-> TRUE, is_list |-> FALSE, items |-> << >>]
    IN  IF IsNumber(t) \/ IsString(t) THEN NoList
        ELSE IF Len(t) >= 2 /\ t[1] = "[" /\ t[Len(t)] = "]"
        THEN LET inner == Strip(SubSeq(t, 2, Len(t) - 1))
                 parts == SplitItems(inner, << >>, FALSE)
                 Item(j) == Strip(parts[j])
             IN  IF inner = << >> THEN [ok |-> TRUE, is_list |-> TRUE, items |-> << >>]
                 ELSE IF \A j \in 1..Len(parts) : IsNumber(Item(j)) \/ IsString(Item(j))
                 THEN [ok |-> TRUE, is_list |-> TRUE,
                       items |-> [j \in 1..Len(parts) |->
                                    IF IsString(Item(j))
                                    THEN SubSeq(Item(j), 2, Len(Item(j)) - 1)
                                    ELSE Item(j)]]
                 ELSE Failed
        ELSE Failed

\* Variant: a text that is not a serialized list gives no keywords.
NormalizeKeywordsListOnly(raw_keywords) ==
    IF raw_keywords.kind = "list" THEN raw_keywords.items
    ELSE IF raw_keywords.kind = "str" /\ Strip(raw_keywords.text) # << >>
    THEN LET parsed == JsonLoads(raw_keywords.text)
         IN  IF parsed.ok /\ parsed.is_list THEN parsed.items
             ELSE << >>
    ELSE << >>

\* "Normalize keywords to a proper list of strings"
NormalizeKeywords(raw_keywords) ==
    IF raw_keywords.kind = "list" THEN raw_keywords.items
    ELSE IF raw_keywords.kind = "str" /\ Strip(raw_keywords.text) # << >>
    THEN LET parsed == JsonLoads(raw_keywords.text)
         IN  IF parsed.ok /\ parsed.is_list THEN parsed.items
             ELSE <<raw_keywords.text>>
    ELSE << >>

\* The results of send_email_to_user and send_job_email.
Skipped(reason) ==
    [success |-> TRUE, skipped |-> TRUE, reason |-> reason, error |-> "",
     message_id |-> ""]
Failure(error) ==
    [success |-> FALSE, skipped |-> FALSE, reason |-> "", error |-> error,
     message_id |-> ""]
Sent(message_id) ==
    [success |-> TRUE, skipped |-> FALSE, reason |-> "", error |-> "",
     message_id |-> message_id]

NoEmail == ""

\* Variant: the email address is looked at before the notifications flag.
ShortCircuitEmailFirst(user_email, email_enabled, keywords) ==
    IF user_email = NoEmail THEN Some(Failure("No email address"))
    ELSE IF ~email_enabled THEN Some(Skipped("notifications_disabled"))
    ELSE IF keywords = << >> THEN Some(Skipped("no_keywords"))
    ELSE None

\* "2. Check if email notifications are enabled" and the two checks after
\* it: the result returned at once, or None to go on.
ShortCircuit(user_email, email_enabled, keywords) ==
    IF ~email_enabled THEN Some(Skipped("notifications_disabled"))
    ELSE IF user_email = NoEmail THEN Some(Failure("No email address"))
    ELSE IF keywords = << >> THEN Some(Skipped("no_keywords"))
    ELSE None

\* A date field of a job: absent, a text that does not parse, or an ISO
\* date: a day, an hour of that day and the offset of its time zone.
DateAbsent == [kind |-> "absent", day |-> 0, hour |-> 0, offset |-> 0]
DateBad == [kind |-> "bad", day |-> 0, hour |-> 0, offset |-> 0]
DateAt(day, hour, offset) ==
    [kind |-> "ok", day |-> day, hour |-> hour, offset |-> offset]
DateOk(day) == DateAt(day, 0, 0)

\* datetime.fromisoformat(...) made timezone-aware: the hours since the epoch
Instant(date) == date.day * 24 + date.hour - date.offset

\* astimezone(timezone.utc).replace(hour=0, ...): the UTC day
UtcDay(date) == Instant(date) \div 24

\* get_job_sort_key: a date that does not parse raises inside the try, and
\* the key is the epoch.
GetJobSortKey(job) ==
    IF job.date_posted.kind = "ok" THEN Instant(job.date_posted)
    ELSE IF job.date_posted.kind = "bad" THEN 0
    ELSE IF job.created_at.kind = "ok" THEN Instant(job.created_at)
    ELSE 0

RECURSIVE InsertByKey(_, _)
\* job goes after the jobs of sorted whose key is not smaller
InsertByKey(sorted, job) ==
    IF sorted = << >> THEN <<job>>
    ELSE IF GetJobSortKey(Head(sorted)) >= GetJobSortKey(job)
    THEN <<Head(sorted)>> \o InsertByKey(Tail(sorted), job)
    ELSE <<job>> \o sorted

RECURSIVE SortJobs(_)
\* filtered_jobs.sort(key=get_job_sort_key, reverse=True): stable
SortJobs(filtered_jobs) ==
    IF filtered_jobs = << >> THEN << >>
    ELSE InsertByKey(SortJobs(SubSeq(filtered_jobs, 1, Len(filtered_jobs) - 1)),
                     filtered_jobs[Len(filtered_jobs)])

RECURSIVE NewestFirst(_)
\* order("created_at", desc=True) of a set of links
NewestFirst(links) ==
    IF links = {} THEN << >>
    ELSE LET newest == CHOOSE l \in links :
                          \A m \in links : m.created_at <= l.created_at
         IN  <<newest>> \o NewestFirst(links \ {newest})

\* "3. Get NEW user_jobs for this user"
NewUserJobs(links, user_id) ==
    NewestFirst({l \in links : l.user_id = user_id /\ l.status = "new"})

\* "3b. Fetch all related jobs": jobs_by_id
JobsById(rows, user_jobs_list) ==
    LET job_ids == {user_jobs_list[j].job_id : j \in 1..Len(user_jobs_list)}
    IN  [id \in {r.id : r \in {x \in rows : x.id \in job_ids}} |->
            CHOOSE r \in rows : r.id = id]

\* Variant: the title is compared as it is written.
MatchesCaseSensitive(title, keywords) ==
    \E j \in 1..Len(keywords) :
        /\ Strip(keywords[j]) # << >>
        /\ Contains(title, Lower(Strip(keywords[j])))

\* the loop over keywords of step 4: some keyword, stripped and not empty,
\* occurs in the title, both in lower case
Matches(title, keywords) ==
    \E j \in 1..Len(keywords) :
        /\ Strip(keywords[j]) # << >>
        /\ Contains(Lower(title), Lower(Strip(keywords[j])))

RECURSIVE FilterJobs(_, _, _)
\* "4. Filter jobs by keywords"
FilterJobs(user_jobs_list, jobs_by_id, keywords) ==
    IF user_jobs_list = << >> THEN << >>
    ELSE LET user_job == Head(user_jobs_list)
             rest == FilterJobs(Tail(user_jobs_list), jobs_by_id, keywords)
         IN  IF /\ user_job.job_id \in DOMAIN jobs_by_id
                /\ jobs_by_id[user_job.job_id].title # << >>
                /\ Matches(jobs_by_id[user_job.job_id].title, keywords)
             THEN <<jobs_by_id[user_job.job_id]>> \o rest
             ELSE rest

\* --------------------------------------------------- render_email_template
\* A field of a job dictionary: the key is missing, its value is None, or
\* it has a value.
Missing == [k |-> "missing"]
Null == [k |-> "null"]
Val(v) == [k |-> "val", v |-> v]

\* job.get(key, default)
Get(job, key, default) == IF job[key].k = "missing" THEN Val(default) ELSE job[key]

\* The truth value of a text, of a number and of a flag, None being false.
TruthyText(x) == x.k = "val" /\ x.v # << >>
TruthyNumber(x) == x.k = "val" /\ x.v # 0
TruthyFlag(x) == x.k = "val" /\ x.v

\* A text inside an f-string.
TextNone == <<"N", "o", "n", "e">>
Str(x) == IF x.k = "val" THEN x.v ELSE TextNone

\* str.upper() of a character
UpperChar(ch) ==
    CASE ch = "a" -> "A" [] ch = "c" -> "C" [] ch = "m" -> "M" [] ch = "u" -> "U"
      [] ch = "d" -> "D" [] ch = "e" -> "E" [] ch = "v" -> "V"
      [] ch = "o" -> "O" [] ch = "p" -> "P" [] ch = "s" -> "S"
      [] OTHER -> ch

\* The labels of format_posted_date.
Today == [text |-> "Today", n |-> 0]
Yesterday == [text |-> "Yesterday", n |-> 0]
DaysAgo(n) == [text |-> "days ago", n |-> n]

\* Variant: the day is read off the date as it is written, in its own zone.
FormatPostedDateLocalDay(job, today) ==
    LET date_obj == IF job.date_posted.kind = "ok" THEN Some(job.date_posted)
                    ELSE IF job.created_at.kind = "ok" THEN Some(job.created_at)
                    ELSE None
    IN  IF date_obj = None THEN Today
        ELSE LET diff_days == today - date_obj[1].day
             IN  IF diff_days = 0 THEN Today
                 ELSE IF diff_days = 1 THEN Yesterday
                 ELSE DaysAgo(diff_days)

\* format_posted_date(job) on UTC day today: date_posted when it parses,
\* else created_at when it parses
FormatPostedDate(job, today) ==
    LET date_obj == IF job.date_posted.kind = "ok" THEN Some(job.date_posted)
                    ELSE IF job.created_at.kind = "ok" THEN Some(job.created_at)
                    ELSE None
    IN  IF date_obj = None THEN Today
        ELSE LET diff_days == today - UtcDay(date_obj[1])
             IN  IF diff_days = 0 THEN Today
                 ELSE IF diff_days = 1 THEN Yesterday
                 ELSE DaysAgo(diff_days)

RECURSIVE Grouped(_)
\* f"{n:,}": the groups of three digits of n
Grouped(n) == IF n < 1000 THEN <<n>> ELSE Grouped(n \div 1000) \o <<n % 1000>>

\* The salary range of a card.
SalaryHtml(job) ==
    Some([currency |-> Str(Get(job, "salary_currency", <<"$">>)),
          salary_min |-> Grouped(job.salary_min.v),
          salary_max |-> Grouped(job.salary_max.v)])

\* Variant: the salary is shown when both values are there, zero or not.
SalaryOfPresent(job) ==
    IF job.salary_min.k = "val" /\ job.salary_max.k = "val" THEN SalaryHtml(job)
    ELSE None

\* "# Salary"
Salary(job) ==
    IF TruthyNumber(job.salary_min) /\ TruthyNumber(job.salary_max) THEN SalaryHtml(job)
    ELSE None

\* re.sub('<[^>]*>', '', text): a character goes when it is between a "<"
\* and the first ">" after it
StripTags(text) ==
    LET InTag(i) == \E a \in 1..i :
                       /\ text[a] = "<"
                       /\ \A m \in a..(i - 1) : text[m] # ">"
                       /\ \E b \in i..Len(text) : text[b] = ">"
        kept == {i \in 1..Len(text) : ~InTag(i)}
    IN  [n \in 1..Cardinality(kept) |->
            text[CHOOSE i \in kept : Cardinality({k \in kept : k <= i}) = n]]

DescLimit == 200
DescCut == 197

\* "# Description preview"
Description(job) ==
    IF TruthyText(job.description)
    THEN LET desc_text == StripTags(job.description.v)
         IN  Some(IF Len(desc_text) > DescLimit
                  THEN SubSeq(desc_text, 1, DescCut) \o <<".", ".", ".">>
                  ELSE desc_text)
    ELSE None

\* "# Company logo or fallback": the image, or the initial of the company
Logo(job) ==
    IF TruthyText(job.company_logo_url)
    THEN [src |-> job.company_logo_url.v, alt |-> Str(Get(job, "company", <<"C">>)),
          initial |-> ""]
    ELSE [src |-> << >>, alt |-> << >>,
          initial |-> UpperChar(Get(job, "company", <<"U">>).v[1])]

\* Indexing the company raises when it is None or empty.
CardRaises(job) ==
    /\ ~TruthyText(job.company_logo_url)
    /\ ~TruthyText(Get(job, "company", <<"U">>))

\* One job card.
Card(job, today) ==
    [logo |-> Logo(job),
     company |-> Str(Get(job, "company", <<"U", "n", "k", "n", "o", "w", "n">>)),
     location |-> IF TruthyText(job.location) THEN Some(job.location.v) ELSE None,
     title |-> job.title,
     posted_text |-> FormatPostedDate(job, today),
     remote |-> TruthyFlag(job.is_remote),
     salary |-> Salary(job),
     description |-> Description(job)]

\* render_email_template(jobs, user_email) on UTC day today: it raises, or
\* gives the document: the header with the count, and the cards or the
\* placeholder.
RenderEmailTemplate(job_list, user_email, today) ==
    IF \E j \in 1..Len(job_list) : CardRaises(job_list[j])
    THEN [raised |-> TRUE, job_count |-> 0, plural |-> FALSE, placeholder |-> FALSE,
          cards |-> << >>]
    ELSE [raised |-> FALSE, job_count |-> Len(job_list), plural |-> Len(job_list) # 1,
          placeholder |-> Len(job_list) = 0,
          cards |-> [j \in 1..Len(job_list) |-> Card(job_list[j], today)]]

\* The subject line of send_job_email.
Subject(job_count) ==
    IF job_count = 0 THEN [text |-> "No New Jobs This Time", n |-> 0, plural |-> FALSE]
    ELSE [text |-> "New Job Matching Your Criteria", n |-> job_count,
          plural |-> job_count # 1]

\* return of send_email_to_user
EmReturn(c, result) == [c EXCEPT !.pc = "done", !.result = Some(result)]

\* send_email_to_user(supabase_client, user_id) up to the checks of the
\* user: the select of the user raises (also when there is no such row), or
\* gives the row.
SendEmailToUser(user_id) ==
    /\ em.pc = "idle"
    /\ LET c == [em EXCEPT !.user_id = user_id]
       IN  IF ~supabase
           THEN em' = EmReturn(c, Failure("Database not configured"))
           ELSE \/ em' = EmReturn(c, Failure("select users raised"))
                \/ /\ user_id \notin DOMAIN users
                   /\ em' = EmReturn(c, Failure("User not found"))
                \/ /\ user_id \in DOMAIN users
                   /\ LET user == users[user_id]
                          keywords == NormalizeKeywords(user.keywords)
                          short == ShortCircuit(user.email,
                                                user.email_notifications_enabled,
                                                keywords)
                      IN  em' = IF short # None
                                THEN EmReturn([c EXCEPT !.user = Some(user),
                                                        !.keywords = keywords],
                                              short[1])
                                ELSE [c EXCEPT !.user = Some(user),
                                               !.keywords = keywords,
                                               !.pc = "user_jobs"]
    /\ UNCHANGED <<main_vars, more_vars, job_rows, link_rows, calls, users, resend>>

\* The select of the user's new links; it may raise.
SelectUserJobs ==
    /\ em.pc = "user_jobs"
    /\ \/ em' = EmReturn(em, Failure("select user_jobs raised"))
       \/ LET user_jobs_list == NewUserJobs(link_rows, em.user_id)
          IN  em' = [em EXCEPT !.user_jobs = user_jobs_list,
                               !.pc = IF user_jobs_list = << >> THEN "send"
                                      ELSE "jobs"]
    /\ UNCHANGED <<main_vars, more_vars, job_rows, link_rows, calls, users, resend>>

\* The select of the linked jobs; when it raises no job is loaded.
SelectJobs ==
    /\ em.pc = "jobs"
    /\ \/ em' = [em EXCEPT !.pc = "send"]
       \/ em' = [em EXCEPT !.jobs_by_id = JobsById(job_rows, em.user_jobs),
                           !.pc = "send"]
    /\ UNCHANGED <<main_vars, more_vars, job_rows, link_rows, calls, users, resend>>

\* The email-send collaborator is called with the recipient and the jobs;
\* delivered tells whether it returned.
Called(r, to, email_jobs, html, delivered) ==
    [r EXCEPT !.calls = Append(@, [to |-> to, jobs |-> email_jobs,
                                   job_count |-> Len(email_jobs),
                                   subject |-> Subject(Len(email_jobs)),
                                   html |-> html,
                                   delivered |-> delivered])]

\* Variant: without an API key the send raises instead of returning.
SendJobEmailResultRaising(api_key, html, sent) ==
    IF ~api_key THEN None
    ELSE IF html.raised THEN Some(Failure("render raised"))
    ELSE IF ~sent THEN Some(Failure("send raised"))
    ELSE Some(Sent("id"))

\* The result of send_job_email: the API key is missing, the template or
\* the send raised, or the send returned.
SendJobEmailResult(api_key, html, sent) ==
    IF ~api_key THEN Some(Failure("Email service is not configured"))
    ELSE IF html.raised THEN Some(Failure("render raised"))
    ELSE IF ~sent THEN Some(Failure("send raised"))
    ELSE Some(Sent("id"))

\* Steps 4 and 5: filter, sort, send_job_email(to, jobs): no API key, or
\* the template raises, or resend.Emails.send raises or returns.
SendJobEmail ==
    /\ em.pc = "send"
    /\ LET to == em.user[1].email
           email_jobs == SortJobs(FilterJobs(em.user_jobs, em.jobs_by_id, em.keywords))
           html == RenderEmailTemplate(email_jobs, to, utc_day)
       IN  \E sent \in BOOLEAN :
              /\ em' = [em EXCEPT !.pc = "done",
                                  !.result = SendJobEmailResult(resend.api_key, html, sent)]
              /\ resend' = IF resend.api_key /\ ~html.raised
                           THEN Called(resend, to, email_jobs, html, sent)
                           ELSE resend
    /\ UNCHANGED <<main_vars, more_vars, job_rows, link_rows, calls, users>>

\* The rows of users, jobs and user_jobs of the email specification.
StoredKeywords ==
    {KwAbsent, KwList(<< >>), KwList(<<TextDev>>), KwList(<<TextBlank, TextPaddedOPS>>),
     KwStr(TextBlank), KwStr(TextJsonList), KwStr(TextJsonEmptyList),
     KwStr(TextJsonNumber), KwStr(TextOps), KwStr(TextJsonMixed),
     KwStr(TextJsonString), KwStr(TextJsonBroken)}

UserRows ==
    [email : {NoEmail, "ann@example.com"}, email_notifications_enabled : BOOLEAN,
     keywords : StoredKeywords]

TextAcme == <<"a", "c", "m", "e">>

EmailJob(id, title, date_posted, created_at) ==
    [id |-> id, job_url |-> id, title |-> title, date_posted |-> date_posted,
     created_at |-> created_at, company |-> Val(TextAcme), company_logo_url |-> Null,
     location |-> Null, is_remote |-> Null, salary_min |-> Null,
     salary_max |-> Null, salary_currency |-> Null, description |-> Null]

EmailJobs ==
    {EmailJob(1, <<"d", "e", "v", "O", "p", "s">>, DateOk(3), DateOk(5)),
     EmailJob(2, <<"O", "P", "S">>, DateAbsent, DateOk(4)),
     EmailJob(3, << >>, DateOk(9), DateOk(9)),
     EmailJob(4, TextDev, DateBad, DateOk(8)),
     [EmailJob(6, TextOps, DateOk(1), DateOk(1)) EXCEPT !.company = Null]}

EmailLink(user_id, job_id, status, created_at) ==
    [user_id |-> user_id, job_id |-> job_id, status |-> status,
     created_at |-> created_at]

EmailLinks ==
    {EmailLink("u1", 1, "new", 1), EmailLink("u1", 2, "new", 2),
     EmailLink("u1", 3, "new", 3), EmailLink("u1", 4, "new", 4),
     EmailLink("u1", 5, "new", 5), EmailLink("u2", 2, "new", 6),
     EmailLink("u1", 2, "applied", 7)}

\* A link to the job without a company.
EmailLinkNoCompany == EmailLink("u1", 6, "new", 8)

\* One call of send_email_to_user, for a user that is stored or not.
InitEmail ==
    /\ supabase \in BOOLEAN
    /\ now = 1
    /\ ticks = 0
    /\ search_runs = [r \in RunIds |-> NewRun("u1", "", TRUE, 0)]
    /\ jobs = {}
    /\ user_jobs = {}
    /\ ctx = [p \in Procs |-> IdleCtx]
    /\ calls = << >>
    /\ job_rows = EmailJobs
    /\ link_rows \in {{}, EmailLinks, EmailLinks \cup {EmailLinkNoCompany}}
    /\ users \in {<< >>} \cup {[u \in {"u1"} |-> row] : row \in UserRows}
    /\ resend \in [api_key : BOOLEAN, calls : {<< >>}]
    /\ em = IdleEm
    /\ utc_day = 0
    /\ rd = IdleRd
    /\ bt = IdleBt
    /\ lg = IdleLg
    /\ fl = IdleFl

NextEmail ==
    \/ SendEmailToUser("u1")
    \/ SelectUserJobs
    \/ SelectJobs
    \/ SendJobEmail

SpecEmail == InitEmail /\ [][NextEmail]_vars

\* ------------------------------------------ send_emails_to_subscribed_users
\* The keywords of the batch are the stored value as it is: the elements of
\* a list, the characters of a text.
BatchKeywords(raw_keywords) ==
    IF raw_keywords.kind = "list" THEN raw_keywords.items
    ELSE [j \in 1..Len(raw_keywords.text) |-> <<raw_keywords.text[j]>>]

\* "not keywords or len(keywords) == 0"
NoKeywords(raw_keywords) ==
    \/ raw_keywords.kind = "none"
    \/ raw_keywords.kind = "list" /\ raw_keywords.items = << >>
    \/ raw_keywords.kind = "str" /\ raw_keywords.text = << >>

\* any(keyword.lower() in job_title_lower for keyword in keywords)
BatchMatches(title, keywords) ==
    \E j \in 1..Len(keywords) : Contains(Lower(title), Lower(keywords[j]))

\* The select of the user's new links joined with their jobs, and step 4.
BatchFilter(user_id, keywords) ==
    LET user_jobs_list == NewUserJobs(link_rows, user_id)
        jobs_by_id == JobsById(job_rows, user_jobs_list)
        Job(j) == jobs_by_id[user_jobs_list[j].job_id]
        Kept(j) == /\ user_jobs_list[j].job_id \in DOMAIN jobs_by_id
                   /\ Job(j).title # << >>
                   /\ BatchMatches(Job(j).title, keywords)
        F[j \in 0..Len(user_jobs_list)] ==
            IF j = 0 THEN << >>
            ELSE IF Kept(j) THEN Append(F[j - 1], Job(j)) ELSE F[j - 1]
    IN  F[Len(user_jobs_list)]

\* One entry of details.
BatchDetail(user, status, reason, job_count, error) ==
    [user_id |-> user.id, email |-> user.email, status |-> status,
     reason |-> reason, job_count |-> job_count, error |-> error]

\* The result of the batch.
BatchResult(success, sent, failed, details, error) ==
    [success |-> success, sent |-> sent, failed |-> failed, details |-> details,
     error |-> error]

\* The order in which the select gives the users.
UserOrder(id) == CASE id = "u1" -> 1 [] id = "u2" -> 2 [] OTHER -> 3

\* The select of the users with email_notifications_enabled.
SubscribedUsers ==
    LET ids == {id \in DOMAIN users : users[id].email_notifications_enabled}
        Ordered[n \in 0..Cardinality(ids)] ==
            IF n = 0 THEN << >>
            ELSE LET rest == ids \ {Ordered[n - 1][j].id : j \in 1..(n - 1)}
                     id == CHOOSE x \in rest : \A y \in rest : UserOrder(x) <= UserOrder(y)
                 IN  Append(Ordered[n - 1],
                            [id |-> id, email |-> users[id].email,
                             keywords |-> users[id].keywords])
    IN  Ordered[Cardinality(ids)]

\* Variant: a user that fails ends the loop.
AfterUserStopOnFailure(b, sent, failed, detail) ==
    LET c == [b EXCEPT !.sent_count = @ + sent, !.failed_count = @ + failed,
                       !.details = Append(@, detail)]
    IN  IF b.i < Len(b.users) /\ failed = 0 THEN [c EXCEPT !.i = @ + 1]
        ELSE [c EXCEPT !.pc = "done",
                       !.result = Some(BatchResult(c.failed_count = 0, c.sent_count,
                                                   c.failed_count, c.details, ""))]

\* The end of one iteration of the loop over the users: the counters and
\* the details are updated, and the next user follows or the result is
\* returned.
AfterUser(b, sent, failed, detail) ==
    LET c == [b EXCEPT !.sent_count = @ + sent, !.failed_count = @ + failed,
                       !.details = Append(@, detail)]
    IN  IF b.i < Len(b.users) THEN [c EXCEPT !.i = @ + 1]
        ELSE [c EXCEPT !.pc = "done",
                       !.result = Some(BatchResult(c.failed_count = 0, c.sent_count,
                                                   c.failed_count, c.details, ""))]

\* send_emails_to_subscribed_users(supabase_client) up to its loop.
SendEmailsToSubscribedUsers ==
    /\ bt.pc = "idle"
    /\ IF ~supabase
       THEN bt' = [bt EXCEPT !.pc = "done",
                             !.result = Some(BatchResult(FALSE, 0, 0, << >>,
                                                         "Database not configured"))]
       ELSE \/ bt' = [bt EXCEPT !.pc = "done",
                                !.result = Some(BatchResult(FALSE, 0, 0, << >>,
                                                            "select users raised"))]
            \/ bt' = IF SubscribedUsers = << >>
                     THEN [bt EXCEPT !.pc = "done",
                                     !.result = Some(BatchResult(TRUE, 0, 0, << >>, ""))]
                     ELSE [bt EXCEPT !.pc = "user", !.users = SubscribedUsers, !.i = 1]
    /\ UNCHANGED <<main_vars, job_rows, link_rows, calls, users, resend, em, utc_day,
                   rd, lg, fl>>

\* "2. Process each user sequentially": the user without email or keywords
\* is skipped; else the select of the links raises, or the jobs are
\* filtered and sorted and send_job_email is called.
ProcessUser ==
    /\ bt.pc = "user"
    /\ LET user == bt.users[bt.i]
       IN  IF user.email = NoEmail
           THEN /\ bt' = AfterUser(bt, 0, 1, BatchDetail(user, "skipped", "no email", 0, ""))
                /\ UNCHANGED resend
           ELSE IF NoKeywords(user.keywords)
           THEN /\ bt' = AfterUser(bt, 0, 0,
                                   BatchDetail(user, "skipped", "no keywords", 0, ""))
                /\ UNCHANGED resend
           ELSE \/ /\ bt' = AfterUser(bt, 0, 1,
                                      BatchDetail(user, "error", "", 0,
                                                  "select user_jobs raised"))
                   /\ UNCHANGED resend
                \/ LET filtered_jobs ==
                           SortJobs(BatchFilter(user.id, BatchKeywords(user.keywords)))
                       html == RenderEmailTemplate(filtered_jobs, user.email, utc_day)
                   IN  \E sent \in BOOLEAN :
                          LET result == SendJobEmailResult(resend.api_key, html, sent)[1]
                          IN  /\ resend' = IF resend.api_key /\ ~html.raised
                                           THEN Called(resend, user.email, filtered_jobs,
                                                       html, sent)
                                           ELSE resend
                              /\ bt' = IF result.success
                                       THEN AfterUser(bt, 1, 0,
                                                BatchDetail(user, "sent", "",
                                                            Len(filtered_jobs), ""))
                                       ELSE AfterUser(bt, 0, 1,
                                                BatchDetail(user, "failed", "", 0,
                                                            result.error))
    /\ UNCHANGED <<main_vars, job_rows, link_rows, calls, users, em, utc_day, rd, lg, fl>>

\* The rows of users of the batch specification.
BatchUserRows ==
    [email : {NoEmail, "ann@example.com"}, email_notifications_enabled : BOOLEAN,
     keywords : {KwAbsent, KwList(<<TextDev>>), KwStr(TextOps),
                 KwList(<<TextBlank, TextPaddedOPS>>), KwStr(TextJsonPo)}]

\* One call of send_emails_to_subscribed_users over three stored users, the
\* last one subscribed with an address and keywords.
InitBatch ==
    /\ supabase \in BOOLEAN
    /\ now = 1
    /\ ticks = 0
    /\ search_runs = [r \in RunIds |-> NewRun("u1", "", TRUE, 0)]
    /\ jobs = {}
    /\ user_jobs = {}
    /\ ctx = [p \in Procs |-> IdleCtx]
    /\ calls = << >>
    /\ job_rows = EmailJobs
    /\ link_rows \in {EmailLinks, EmailLinks \cup {EmailLinkNoCompany}}
    /\ \E row1, row2 \in BatchUserRows :
          users = [u \in {"u1", "u2", "u3"} |->
                      CASE u = "u1" -> row1
                        [] u = "u2" -> row2
                        [] OTHER -> [email |-> "cy@example.com",
                                     email_notifications_enabled |-> TRUE,
                                     keywords |-> KwList(<<TextOps>>)]]
    /\ resend \in [api_key : BOOLEAN, calls : {<< >>}]
    /\ em = IdleEm
    /\ utc_day = 0
    /\ rd = IdleRd
    /\ bt = IdleBt
    /\ lg = IdleLg
    /\ fl = IdleFl

NextBatch ==
    \/ SendEmailsToSubscribedUsers
    \/ ProcessUser

SpecBatch == InitBatch /\ [][NextBatch]_vars

\* ------------------------------------------- render_email_template, alone
MaxDay == 3
MaxRenders == 2

\* The jobs given to the template: one job of the store with other dates,
\* another salary, or another company, logo, location and description.
RenderJob == EmailJob(1, TextDev, DateOk(0), DateOk(0))

TextLong == [i \in 1..(DescLimit + 1) |-> "x"]
TextTagged == <<"<", "b", ">", "o", "p", "s", "<", "/", "b", ">", " ", "<">>
TextUrl == <<"h", "t", "t", "p", "s", ":", "/", "/", "a", "c", "m", "e">>

RenderJobs ==
    {[RenderJob EXCEPT !.date_posted = posted, !.created_at = created] :
        posted \in {DateAbsent, DateBad, DateOk(0), DateOk(2), DateAt(1, 23, -2),
                    DateAt(1, 1, 3)},
        created \in {DateAbsent, DateBad, DateOk(1)}}
    \cup
    {[RenderJob EXCEPT !.salary_min = min, !.salary_max = max, !.salary_currency = cur] :
        min \in {Null, Val(0), Val(50000)},
        max \in {Null, Val(0), Val(1234567)},
        cur \in {Missing, Null, Val(<<"E", "U", "R">>)}}
    \cup
    {[RenderJob EXCEPT !.company_logo_url = logo, !.company = company] :
        logo \in {Null, Val(TextUrl)},
        company \in {Missing, Null, Val(<< >>), Val(TextAcme)}}
    \cup
    {[RenderJob EXCEPT !.description = Val(desc), !.location = Val(TextOps),
                       !.is_remote = Val(remote)] :
        desc \in {TextLong, TextTagged}, remote \in BOOLEAN}

RenderJobLists ==
    {<< >>} \cup {<<job>> : job \in RenderJobs}
            \cup {<<RenderJob, [RenderJob EXCEPT !.date_posted = DateOk(2)]>>}

\* render_email_template(jobs, user_email) is called on the current day.
Render ==
    /\ Len(rd.docs) < MaxRenders
    /\ rd' = [rd EXCEPT !.docs = Append(@, [day |-> utc_day,
                                            html |-> RenderEmailTemplate(rd.jobs,
                                                        "ann@example.com", utc_day)])]
    /\ UNCHANGED <<main_vars, job_rows, link_rows, calls, email_vars, utc_day, bt, lg, fl>>

\* Midnight, UTC.
NextDay ==
    /\ utc_day < MaxDay
    /\ utc_day' = utc_day + 1
    /\ UNCHANGED <<main_vars, job_rows, link_rows, calls, email_vars, rd, bt, lg, fl>>

InitRender ==
    /\ supabase = FALSE
    /\ now = 1
    /\ ticks = 0
    /\ search_runs = [r \in RunIds |-> NewRun("u1", "", TRUE, 0)]
    /\ jobs = {}
    /\ user_jobs = {}
    /\ ctx = [p \in Procs |-> IdleCtx]
    /\ calls = << >>
    /\ job_rows = {}
    /\ link_rows = {}
    /\ users = << >>
    /\ resend = [api_key |-> FALSE, calls |-> << >>]
    /\ em = IdleEm
    /\ utc_day = 0
    /\ rd \in [jobs : RenderJobLists, docs : {<< >>}]
    /\ bt = IdleBt
    /\ lg = IdleLg
    /\ fl = IdleFl

NextRender == Render \/ NextDay

SpecRender == InitRender /\ [][NextRender]_vars

\* ------------------------------------------------------------ logo_fetcher
\* A job URL is its host, label by label, and whether its path is that of
\* a job view; the empty URL has no host.
JobUrl(host, view) == [host |-> host, view |-> view]

\* 'linkedin.com' in the URL
HasLinkedinHost(job_url) ==
    \E i \in 1..(Len(job_url.host) - 1) :
        job_url.host[i] = "linkedin" /\ job_url.host[i + 1] = "com"

\* 'linkedin' in site, in lower case
IsLinkedinSite(site) == Contains(Lower(site), <<"l", "i", "n", "k", "e", "d", "i", "n">>)

\* The outcomes of requests.get of the job page and of requests.head of a
\* logo URL.
FetchOutcomes == {"logo", "other_image", "no_logo", "status", "raise"}
ProbeOutcomes == {"image", "not_image", "status", "raise"}

\* The URLs that the fetcher gives.
LogoUrl(service, domain) == [service |-> service, domain |-> domain]

\* re.sub(r'[^\w\s-]', '', company_name.lower()) without its white space
CleanName(company_name) ==
    LET text == Lower(company_name)
        kept == {i \in 1..Len(text) : text[i] \notin {" ", "!", ".", ","}}
    IN  [n \in 1..Cardinality(kept) |->
            text[CHOOSE i \in kept : Cardinality({k \in kept : k <= i}) = n]]

\* get_linkedin_company_logo(job_url, company_name): the logo found in the
\* page of the job, or None
GetLinkedinCompanyLogo(job_url, fetch) ==
    IF ~(HasLinkedinHost(job_url) /\ job_url.view) THEN None
    ELSE IF fetch = "logo" THEN Some(LogoUrl("linkedin", <<"media", "licdn", "com">>))
    ELSE None

\* get_clearbit_logo(company_name, job_url)
GetClearbitLogo(company_name, job_url) ==
    IF company_name = << >> THEN None
    ELSE IF job_url.host # << >> /\ ~HasLinkedinHost(job_url) /\ Len(job_url.host) >= 2
    THEN Some(LogoUrl("clearbit", SubSeq(job_url.host, Len(job_url.host) - 1,
                                         Len(job_url.host))))
    ELSE Some(LogoUrl("clearbit", <<CleanName(company_name), "com">>))

\* get_logo_dev_url(company_name)
GetLogoDevUrl(company_name) ==
    IF company_name = << >> THEN None
    ELSE Some(LogoUrl("logo.dev", <<CleanName(company_name), "com">>))

\* Variant: every candidate counts as verified.
VerifyLogoUrlAlways(probe) == TRUE

\* verify_logo_url(url)
VerifyLogoUrl(probe) == probe = "image"

\* get_logo_for_job(job_data) up to the end of strategy 1.
GetLogoForJob ==
    /\ lg.pc = "idle"
    /\ LET job_url == lg.job_data.job_url
           company_name == lg.job_data.company
       IN  IF company_name = << >>
           THEN lg' = [lg EXCEPT !.pc = "done", !.result = None]
           ELSE IF IsLinkedinSite(lg.job_data.site) \/ HasLinkedinHost(job_url)
           THEN \E fetch \in FetchOutcomes :
                   LET linkedin_logo == GetLinkedinCompanyLogo(job_url, fetch)
                   IN  lg' = IF linkedin_logo # None
                             THEN [lg EXCEPT !.pc = "done", !.fetch = fetch,
                                             !.result = linkedin_logo]
                             ELSE [lg EXCEPT !.pc = "clearbit", !.fetch = fetch]
           ELSE lg' = [lg EXCEPT !.pc = "clearbit"]
    /\ UNCHANGED <<main_vars, job_rows, link_rows, calls, email_vars, utc_day, rd, bt, fl>>

\* Strategies 2, 3 and 4.
TryClearbit ==
    /\ lg.pc = "clearbit"
    /\ \E probe \in ProbeOutcomes :
          LET clearbit_url == GetClearbitLogo(lg.job_data.company, lg.job_data.job_url)
              logo_dev_url == GetLogoDevUrl(lg.job_data.company)
          IN  lg' = [lg EXCEPT !.pc = "done", !.probe = probe,
                               !.result = IF clearbit_url # None /\ VerifyLogoUrl(probe)
                                          THEN clearbit_url
                                          ELSE IF logo_dev_url # None THEN logo_dev_url
                                          ELSE clearbit_url]
    /\ UNCHANGED <<main_vars, job_rows, link_rows, calls, email_vars, utc_day, rd, bt, fl>>

\* The jobs given to get_logo_for_job; a missing key reads as the empty text.
TextLinkedIn == <<"L", "i", "n", "k", "e", "d", "I", "n">>
TextIndeed == <<"i", "n", "d", "e", "e", "d">>

LogoJobs ==
    [job_url : {JobUrl(<< >>, FALSE), JobUrl(<<"www", "linkedin", "com">>, TRUE),
                JobUrl(<<"www", "linkedin", "com">>, FALSE),
                JobUrl(<<"uk", "indeed", "com">>, TRUE), JobUrl(<<"localhost">>, FALSE)},
     company : {<< >>, TextOps, <<"D", "e", "v", " ", "O", "p", "s", "!">>},
     site : {<< >>, TextLinkedIn, TextIndeed}]

InitLogo ==
    /\ supabase = FALSE
    /\ now = 1
    /\ ticks = 0
    /\ search_runs = [r \in RunIds |-> NewRun("u1", "", TRUE, 0)]
    /\ jobs = {}
    /\ user_jobs = {}
    /\ ctx = [p \in Procs |-> IdleCtx]
    /\ calls = << >>
    /\ job_rows = {}
    /\ link_rows = {}
    /\ users = << >>
    /\ resend = [api_key |-> FALSE, calls |-> << >>]
    /\ em = IdleEm
    /\ utc_day = 0
    /\ rd = IdleRd
    /\ bt = IdleBt
    /\ \E job_data \in LogoJobs : lg = [IdleLg EXCEPT !.job_data = job_data]
    /\ fl = IdleFl

NextLogo == GetLogoForJob \/ TryClearbit

SpecLogo == InitLogo /\ [][NextLogo]_vars

\* ------------------------------------------------- fetch_logos_for_jobs
\* The site of a job that is None: get_logo_for_job raises on its lower().
SiteNone == <<"None">>

\* What the worker of one job gives: it raises, or returns one of the URLs
\* that get_logo_for_job can return for the job, or None.
Raises == [raised |-> TRUE, url |-> << >>]
Returns(url) == [raised |-> FALSE, url |-> url]

Resolutions(job) ==
    IF job.site = SiteNone THEN {Raises}
    ELSE IF job.company = << >> THEN {Returns(None)}
    ELSE {Returns(IF (IsLinkedinSite(job.site) \/ HasLinkedinHost(job.job_url))
                      /\ GetLinkedinCompanyLogo(job.job_url, fetch) # None
                  THEN GetLinkedinCompanyLogo(job.job_url, fetch)
                  ELSE IF VerifyLogoUrl(probe)
                  THEN GetClearbitLogo(job.company, job.job_url)
                  ELSE GetLogoDevUrl(job.company)) :
             fetch \in FetchOutcomes, probe \in ProbeOutcomes}

\* jobs.index(job)
IndexOf(job_list, job) ==
    CHOOSE i \in 1..Len(job_list) :
        job_list[i] = job /\ \A j \in 1..(i - 1) : job_list[j] # job

\* The slot in which the result of the future of jobs[i] is put.
SlotOf(job_list, i) == IndexOf(job_list, job_list[i])

\* The value put in the slot: the result of the future, or for a future
\* that raised get_clearbit_logo of the company without the job URL.
Collected(resolution, job) ==
    IF resolution.raised THEN GetClearbitLogo(job.company, JobUrl(<< >>, FALSE))
    ELSE resolution.url

\* fetch_logos_for_jobs(jobs): every job is submitted to the pool.
FetchLogosForJobs ==
    /\ fl.pc = "idle"
    /\ fl' = [fl EXCEPT !.pc = IF fl.jobs = << >> THEN "done" ELSE "collect",
                        !.pending = 1..Len(fl.jobs),
                        !.resolved = [i \in 1..Len(fl.jobs) |-> << >>],
                        !.results = [i \in 1..Len(fl.jobs) |-> None]]
    /\ UNCHANGED <<main_vars, job_rows, link_rows, calls, email_vars, utc_day, rd, bt, lg>>

\* The next future of as_completed, whichever it is, and its result.
Collect ==
    /\ fl.pc = "collect"
    /\ \E i \in fl.pending : \E resolution \in Resolutions(fl.jobs[i]) :
          fl' = [fl EXCEPT !.pending = @ \ {i},
                           !.resolved[i] = <<resolution>>,
                           !.results[SlotOf(fl.jobs, i)] =
                               Collected(resolution, fl.jobs[i]),
                           !.pc = IF fl.pending = {i} THEN "done" ELSE "collect"]
    /\ UNCHANGED <<main_vars, job_rows, link_rows, calls, email_vars, utc_day, rd, bt, lg>>

\* The lists of jobs given to fetch_logos_for_jobs: up to three jobs, of
\* LinkedIn, of another site, and one that the worker cannot read.
FetchJobs ==
    {[job_url |-> JobUrl(<<"www", "linkedin", "com">>, TRUE), company |-> TextOps,
      site |-> TextLinkedIn],
     [job_url |-> JobUrl(<<"uk", "indeed", "com">>, TRUE),
      company |-> <<"D", "e", "v", " ", "O", "p", "s", "!">>, site |-> TextIndeed],
     [job_url |-> JobUrl(<<"uk", "indeed", "com">>, TRUE), company |-> TextOps,
      site |-> SiteNone]}

FetchJobLists == UNION {[1..n -> FetchJobs] : n \in 0..3}

InitFetch ==
    /\ supabase = FALSE
    /\ now = 1
    /\ ticks = 0
    /\ search_runs = [r \in RunIds |-> NewRun("u1", "", TRUE, 0)]
    /\ jobs = {}
    /\ user_jobs = {}
    /\ ctx = [p \in Procs |-> IdleCtx]
    /\ calls = << >>
    /\ job_rows = {}
    /\ link_rows = {}
    /\ users = << >>
    /\ resend = [api_key |-> FALSE, calls |-> << >>]
    /\ em = IdleEm
    /\ utc_day = 0
    /\ rd = IdleRd
    /\ bt = IdleBt
    /\ lg = IdleLg
    /\ \E job_list \in FetchJobLists : fl = [IdleFl EXCEPT !.jobs = job_list]

NextFetch == FetchLogosForJobs \/ Collect

SpecFetch == InitFetch /\ [][NextFetch]_vars

\* ------------------------------------------------------------------ claims
\* The invocation of scrape_jobs in instance p went through its loop and
\* returned its response.
NormalEnd(c) == c.response # None /\ c.response[1].kind = "ok"

\* The invocation works on a run of the storage.
Tracked(c) == supabase /\ c.op \in {"scrape", "poll"} /\ c.run_id # NoRun

\* A cleanup request has written run r.
Swept(r) ==
    \E q \in Procs :
        /\ ctx[q].op = "cleanup"
        /\ \E j \in 1..ctx[q].updated_count : ctx[q].stuck_searches[j] = r

HistSites(hist) == [j \in 1..Len(hist) |-> hist[j].site]
HistSaved(hist) == [j \in 1..Len(hist) |-> hist[j].saved]
HistRows(hist) == [j \in 1..Len(hist) |-> hist[j].rows]

CompletedSites(ss) == {s \in DOMAIN ss : ss[s].tag = "completed"}
FailedSiteSet(ss) == {s \in DOMAIN ss : ss[s].tag = "failed"}

\* C1: a run whose status is success or failed keeps that status, and a
\* status only changes pending -> running, running -> success or
\* running -> failed.
C1_StatusOneWay ==
    [][\A r \in RunIds :
          LET old == search_runs[r].status
              new == search_runs'[r].status
          IN  /\ old \in {"success", "failed"} => new = old
              /\ new # old => <<old, new>> \in {<<"pending", "running">>,
                                                <<"running", "success">>,
                                                <<"running", "failed">>}]_vars

\* C2: of two poll_queue invocations that fetched the same run at most one
\* claims and processes it; once both are past it and no claim request
\* raised, exactly one has claimed it and the other has recorded the skip
\* "already claimed".
PollScrapePcs ==
    {"map", "site", "save", "inc_read", "inc_write", "finalize",
     "final_import", "final_except", "returned", "poll_except"}

HasDetail(c, r, status, reasons) ==
    \E j \in 1..Len(c.details) :
        /\ c.details[j].run_id = r
        /\ c.details[j].status = status
        /\ reasons # {} => c.details[j].reason \in reasons

Claimed(c, r) ==
    /\ c.op = "poll"
    /\ \/ c.pc \in PollScrapePcs /\ c.runs[c.k] = r
       \/ HasDetail(c, r, "completed", {})
       \/ HasDetail(c, r, "failed", {})

SkippedAsClaimed(c, r) == c.op = "poll" /\ HasDetail(c, r, "skipped", {"already claimed"})
ClaimRaised(c, r) == c.op = "poll" /\ HasDetail(c, r, "skipped", {"claim_failed"})

C2_OneWinner ==
    \A r \in RunIds : \A p \in Procs : \A q \in Procs \ {p} :
        LET a == ctx[p]
            b == ctx[q]
        IN  /\ ~(Claimed(a, r) /\ Claimed(b, r))
            /\ SkippedAsClaimed(a, r) => ~Claimed(a, r) /\ a.run_id # r
            /\ (/\ a.op = "poll" /\ b.op = "poll"
                /\ Claimed(a, r) \/ SkippedAsClaimed(a, r)
                /\ Claimed(b, r) \/ SkippedAsClaimed(b, r))
               => \/ Claimed(a, r) /\ SkippedAsClaimed(b, r)
                  \/ Claimed(b, r) /\ SkippedAsClaimed(a, r)

C2_Witness ==
    /\ HasDetail(ctx["p1"], "r1", "completed", {})
    /\ SkippedAsClaimed(ctx["p2"], "r1")
    /\ "r1" \in Range(ctx["p2"].runs)

\* C3: the scrape collaborator is called once for each listed site, in list
\* order, whatever the earlier sites did; when the loop has ended every
\* site's status begins with "completed" or "failed".
C3_EverySiteScraped ==
    \A p \in Procs :
        LET c == ctx[p]
        IN  /\ c.pc = "site" => HistSites(c.hist) = SubSeq(c.site_name, 1, c.i - 1)
            /\ c.pc \in {"save", "inc_read", "inc_write"}
                   => HistSites(c.hist) = SubSeq(c.site_name, 1, c.i)
            /\ (c.pc = "finalize" \/ NormalEnd(c))
                   => /\ HistSites(c.hist) = c.site_name
                      /\ \A s \in DOMAIN c.site_statuses :
                            c.site_statuses[s].tag \in {"completed", "failed"}

C3_Witness ==
    \E p \in Procs :
        /\ NormalEnd(ctx[p])
        /\ Len(ctx[p].hist) = 2
        /\ ctx[p].hist[1].outcome = "raised"
        /\ ctx[p].hist[2].outcome = "rows"
        /\ ctx[p].hist[2].saved > 0

\* C4: the finalizing write of an invocation for a tracked run with a
\* non-empty site list stores success when at least one site's status is
\* completed (SUCCESS when all are, PARTIAL SUCCESS otherwise) and failed
\* when none is; with failed it stores as error_message one part per failed
\* site, carrying that site's status; in both cases it sets completed_at.
FinalizingStep(p) ==
    /\ ctx[p].pc \in {"finalize", "final_import", "final_except"}
    /\ ctx'[p].finals = ctx[p].finals + 1

C4_FinalStatus ==
    [][\A p \in Procs :
          (FinalizingStep(p) /\ Tracked(ctx[p]) /\ ctx[p].site_name # << >>)
          => LET ss == ctx'[p].site_statuses
                 row == search_runs'[ctx[p].run_id]
                 parts == row.error_message[1].parts
             IN  /\ row.completed_at = Some(now)
                 /\ CompletedSites(ss) # {}
                       => /\ row.status = "success"
                          /\ OverallStatus(ss) = IF FailedSiteSet(ss) = {}
                                                 THEN "SUCCESS" ELSE "PARTIAL SUCCESS"
                 /\ CompletedSites(ss) = {}
                       => /\ row.status = "failed"
                          /\ OverallStatus(ss) = "FAILED"
                          /\ row.error_message # None
                          /\ row.error_message[1].kind = "join"
                          /\ Len(parts) = Cardinality(FailedSiteSet(ss))
                          /\ Range(parts) = {[site |-> s, status |-> ss[s]] :
                                                s \in FailedSiteSet(ss)}]_vars

C4_Witness ==
    \E p \in Procs :
        LET c == ctx[p]
        IN  /\ NormalEnd(c) /\ Tracked(c)
            /\ CompletedSites(c.site_statuses) # {}
            /\ FailedSiteSet(c.site_statuses) # {}
            /\ search_runs[c.run_id].status = "success"
            /\ search_runs[c.run_id].completed_at # None

\* C5: while one invocation of scrape_jobs executes a tracked run for an
\* owning user, and after it, the stored jobs_found is its value when the
\* invocation began plus the saved-counts of the sites processed so far.
C5_JobsFoundSum ==
    \A p \in Procs :
        LET c == ctx[p]
        IN  (Tracked(c) /\ c.user_id # NoUser)
            => search_runs[c.run_id].jobs_found = c.jf0 + SeqSum(HistSaved(c.hist))

C5_Witness ==
    \E p \in Procs :
        LET c == ctx[p]
        IN  /\ NormalEnd(c) /\ Tracked(c) /\ c.user_id # NoUser
            /\ Len(c.hist) = 2
            /\ c.hist[1].saved > 1
            /\ c.hist[2].saved = c.hist[1].saved
            /\ search_runs[c.run_id].jobs_found = c.jf0 + 2 * c.hist[1].saved

\* C6: the stored jobs_found of a run never decreases.
C6_JobsFoundMonotone ==
    [][\A r \in RunIds : search_runs'[r].jobs_found >= search_runs[r].jobs_found]_vars

\* C7 as claimed: after a tracked run with no owning user the stored
\* jobs_found has grown by the number of rows the scrapes returned.
C7_ScrapedCountAdded ==
    \A p \in Procs :
        LET c == ctx[p]
        IN  (NormalEnd(c) /\ Tracked(c) /\ c.user_id = NoUser)
            => search_runs[c.run_id].jobs_found = c.jf0 + SeqSum(HistRows(c.hist))

\* C7 as the code has it: an invocation with no owning user adds nothing to
\* the stored jobs_found, whatever its scrapes return.
C7_NoOwnerNothingAdded ==
    \A p \in Procs :
        LET c == ctx[p]
        IN  (Tracked(c) /\ c.user_id = NoUser)
            => search_runs[c.run_id].jobs_found = c.jf0

C7_Witness ==
    \E p \in Procs :
        LET c == ctx[p]
        IN  /\ NormalEnd(c) /\ Tracked(c) /\ c.user_id = NoUser
            /\ SeqSum(HistRows(c.hist)) > 0
            /\ Len(c.all_jobs_list) = SeqSum(HistRows(c.hist))

\* C8: when two invocations have added their saved-counts to the same run,
\* whose jobs_found was 0 before both, the stored jobs_found is the sum of
\* all the counts added: no increment is lost.
C8_NoLostIncrement ==
    \A p \in Procs : \A q \in Procs \ {p} :
        LET a == ctx[p]
            b == ctx[q]
        IN  (/\ NormalEnd(a) /\ NormalEnd(b) /\ Tracked(a) /\ Tracked(b)
             /\ a.run_id = b.run_id)
            => search_runs[a.run_id].jobs_found =
                   SeqSum(HistSaved(a.hist)) + SeqSum(HistSaved(b.hist))

\* The iterations of hist whose site is in S, and the jobs their scrapes
\* returned, in the order of the iterations.
RECURSIVE HistOf(_, _)
HistOf(hist, S) ==
    IF hist = << >> THEN << >>
    ELSE IF Head(hist).site \in S THEN <<Head(hist)>> \o HistOf(Tail(hist), S)
    ELSE HistOf(Tail(hist), S)

RECURSIVE HistJobs(_)
HistJobs(hist) ==
    IF hist = << >> THEN << >>
    ELSE WithLogos(JobsOfSite(Head(hist).site, Head(hist).rows), Head(hist).logos)
             \o HistJobs(Tail(hist))

\* C9: when an invocation for a tracked, owned run ends with some sites
\* completed and the others failed, and no cleanup request wrote the run,
\* the run is stored as success, jobs_found is its value before plus the
\* saved-counts of the completed sites, error_message is empty, and the
\* response carries exactly the jobs of the completed sites in site order.
C9_PartialSuccess ==
    \A p \in Procs :
        LET c == ctx[p]
            done == CompletedSites(c.site_statuses)
            row == search_runs[c.run_id]
        IN  (/\ NormalEnd(c) /\ Tracked(c) /\ c.user_id # NoUser
             /\ done # {} /\ FailedSiteSet(c.site_statuses) # {}
             /\ ~Swept(c.run_id))
            => /\ row.status = "success"
               /\ row.jobs_found = c.jf0 + SeqSum(HistSaved(HistOf(c.hist, done)))
               /\ row.error_message = None
               /\ c.response[1].jobs = HistJobs(HistOf(c.hist, done))
               /\ c.response[1].total_results = Len(c.response[1].jobs)

C9_Witness ==
    \E p \in Procs :
        LET c == ctx[p]
        IN  /\ NormalEnd(c) /\ Tracked(c) /\ c.user_id # NoUser
            /\ c.site_name = <<"indeed", "linkedin">>
            /\ Len(c.hist) = 2
            /\ c.hist[1].outcome = "rows" /\ c.hist[1].rows = 2 /\ c.hist[1].saved = 2
            /\ c.hist[2].outcome = "raised"
            /\ c.jf0 = 0
            /\ search_runs[c.run_id].status = "success"
            /\ search_runs[c.run_id].jobs_found = 2
            /\ search_runs[c.run_id].error_message = None
            /\ Len(c.response[1].jobs) = 2

\* C10: a site whose scrape returns nothing has status 'completed: 0 jobs',
\* which counts as completed; an invocation whose scrapes all return nothing
\* leaves the stored jobs_found as it was; and when such an invocation for a
\* tracked run has ended and no cleanup request wrote the run, the overall
\* outcome is SUCCESS and the run is stored as success.
LastOfSite(hist, j) == \A k \in (j + 1)..Len(hist) : hist[k].site # hist[j].site

AllEmpty(hist) == hist # << >> /\ \A j \in 1..Len(hist) : hist[j].outcome = "empty"

C10_EmptyIsCompleted ==
    \A p \in Procs :
        LET c == ctx[p]
        IN  /\ \A j \in 1..Len(c.hist) :
                 (c.hist[j].outcome = "empty" /\ LastOfSite(c.hist, j))
                 => /\ c.site_statuses[c.hist[j].site] = StCompleted(0)
                    /\ StartsWithCompleted(c.site_statuses[c.hist[j].site])
                    /\ ~ContainsFailed(c.site_statuses[c.hist[j].site])
            /\ (Tracked(c) /\ AllEmpty(c.hist))
                 => search_runs[c.run_id].jobs_found = c.jf0
            /\ (NormalEnd(c) /\ Tracked(c) /\ AllEmpty(c.hist) /\ ~Swept(c.run_id))
                 => /\ OverallStatus(c.site_statuses) = "SUCCESS"
                    /\ search_runs[c.run_id].status = "success"

C10_Witness ==
    \E p \in Procs :
        LET c == ctx[p]
        IN  /\ NormalEnd(c) /\ Tracked(c)
            /\ Len(c.site_name) = 1 /\ Len(c.hist) = 1
            /\ c.hist[1].outcome = "empty"
            /\ c.site_statuses[c.site_name[1]] = StCompleted(0)
            /\ search_runs[c.run_id].status = "success"
            /\ search_runs[c.run_id].jobs_found = 0

\* C11: the response of scrape_jobs carries the jobs of every iteration of
\* the site loop, in order; its success flag is true exactly when that list
\* is non-empty and total_results is the length of the list, whatever status
\* the run has in storage.
C11_ResponseOfJobList ==
    \A p \in Procs :
        LET c == ctx[p]
        IN  NormalEnd(c)
            => /\ c.response[1].jobs = HistJobs(c.hist)
               /\ c.response[1].jobs = c.all_jobs_list
               /\ c.response[1].success = (c.response[1].jobs # << >>)
               /\ c.response[1].total_results = Len(c.response[1].jobs)

C11_Witness ==
    \E p \in Procs :
        LET c == ctx[p]
        IN  /\ NormalEnd(c) /\ Tracked(c) /\ ~Swept(c.run_id)
            /\ c.hist # << >>
            /\ search_runs[c.run_id].status = "success"
            /\ c.response[1].jobs = << >>
            /\ c.response[1].success = FALSE
            /\ c.response[1].total_results = 0

\* C12: in every interleaving of save_job_to_database calls there is at most
\* one job row per job_url (and per id) and at most one link per user and
\* job, every link is to a stored job, every call that returns a job id
\* returns the id of the one row with its job_url, and a call during which
\* the store raised nothing but uniqueness conflicts returns that id and
\* leaves its user linked to the job.
Linked(user_id, job_id) ==
    \E l \in link_rows : l.user_id = user_id /\ l.job_id = job_id

C12_OneRowOneLink ==
    /\ \A r1 \in job_rows, r2 \in job_rows :
          (r1.job_url = r2.job_url \/ r1.id = r2.id) => r1 = r2
    /\ \A l1 \in link_rows, l2 \in link_rows :
          (l1.user_id = l2.user_id /\ l1.job_id = l2.job_id) => l1 = l2
    /\ \A l \in link_rows : \E r \in job_rows : r.id = l.job_id
    /\ \A p \in DOMAIN calls :
          calls[p].last # None
          => LET h == calls[p].last[1]
             IN  /\ h.result # None
                    => \E r \in job_rows : r.job_url = h.job_url /\ r.id = h.result[1]
                 /\ (supabase /\ ~h.store_error)
                    => h.result # None /\ Linked(h.user_id, h.result[1])

C12_Witness ==
    /\ DOMAIN calls = Callers
    /\ calls["c1"].last # None /\ calls["c2"].last # None
    /\ LET h1 == calls["c1"].last[1]
           h2 == calls["c2"].last[1]
       IN  /\ h1.job_url = "b" /\ h2.job_url = "b"
           /\ h1.user_id # h2.user_id
           /\ h1.result # None /\ h1.result = h2.result
           /\ Cardinality(ExistingJob(job_rows, "b")) = 1
           /\ Linked(h1.user_id, h1.result[1]) /\ Linked(h2.user_id, h1.result[1])
           /\ Cardinality({l \in link_rows : l.job_id = h1.result[1]}) = 2

\* C13 as claimed: when every job a site's scrape returned is already stored
\* and already linked to the requesting user, the save of the site yields a
\* saved-count of 0.
C13_DuplicatesNotCounted ==
    [][\A p \in Procs :
          LET c == ctx[p]
          IN  (/\ c.pc = "save" /\ ctx'[p].pc = "inc_read"
               /\ \A j \in 1..Len(c.jobs_for_site) :
                     /\ c.jobs_for_site[j].job_url \in jobs
                     /\ <<c.user_id, c.jobs_for_site[j].job_url>> \in user_jobs)
              => ctx'[p].saved_count = 0]_vars

\* C14: no step removes or changes a stored job row or a stored link, and a
\* step of a save_job_to_database call for a job_url that is stored and a
\* user that is linked to it leaves both tables as they are.
C14_ExistingUnchanged ==
    [][/\ \A r \in job_rows : r \in job_rows'
       /\ \A l \in link_rows : l \in link_rows'
       /\ \A p \in DOMAIN calls :
             (/\ calls[p].pc # "idle" /\ calls'[p] # calls[p]
              /\ \E r \in job_rows : /\ r.job_url = calls[p].job_data[1].job_url
                                     /\ Linked(calls[p].user_id, r.id))
             => job_rows' = job_rows /\ link_rows' = link_rows]_vars

C14_Witness ==
    /\ DOMAIN calls = Callers
    /\ calls["c1"].last = Some([job_url |-> "a", user_id |-> "u1",
                               result |-> Some(1), store_error |-> FALSE])
    /\ TitleOf("c1") # StoredJob.title
    /\ job_rows = {StoredJob}
    /\ link_rows = {StoredLink}

\* C15 as claimed: when the cleanup sweep marks a running run failed, the
\* run entered running more than 5 minutes before.
C15_SweptAfterFiveMinutes ==
    [][\A p \in Procs :
          LET c == ctx[p]
          IN  (/\ c.op = "cleanup" /\ c.pc = "sweep" /\ supabase
               /\ ctx'[p].updated_count = c.updated_count + 1
               /\ search_runs[c.stuck_searches[c.k]].status = "running")
              => LET row == search_runs[c.stuck_searches[c.k]]
                 IN  /\ row.started_at # None
                     /\ row.started_at[1] + StaleMinutes < now]_vars

\* C16 as claimed: when scrape_jobs ends with the hard failure for a tracked
\* run, no site is left pending or processing and the run is stored as
\* failed.
HardFailure(c) == c.response # None /\ c.response[1].kind = "http500"

C16_FailedBeforeRaise ==
    \A p \in Procs :
        LET c == ctx[p]
        IN  (HardFailure(c) /\ Tracked(c))
            => /\ \A s \in DOMAIN c.site_statuses : ContainsFailed(c.site_statuses[s])
               /\ search_runs[c.run_id].status = "failed"

\* C17: while the storage is not configured no table changes; an invocation
\* of scrape_jobs whose import of the scrape library succeeded ends with a
\* response, having called the scrape collaborator for every requested site
\* in order, and the response carries the scraped jobs; poll_queue and
\* cleanup_stuck_searches end with the error result.
C17_Unconfigured ==
    /\ [](~supabase =>
            \A p \in Procs :
                LET c == ctx[p]
                IN  /\ (c.op = "scrape" /\ c.pc = "done" /\ c.exc = None)
                       => /\ NormalEnd(c)
                          /\ HistSites(c.hist) = c.site_name
                          /\ c.response[1].jobs = HistJobs(c.hist)
                    /\ (c.op \in {"poll", "cleanup"})
                       => c.pc = "done" /\ c.response = Some(NotConfigured))
    /\ [][~supabase => /\ search_runs' = search_runs
                       /\ jobs' = jobs
                       /\ user_jobs' = user_jobs]_vars

C17_Witness ==
    /\ ~supabase
    /\ \E p \in Procs :
          LET c == ctx[p]
          IN  /\ NormalEnd(c) /\ c.op = "scrape"
              /\ c.run_id # NoRun /\ c.user_id # NoUser
              /\ Len(c.hist) = 2 /\ c.hist[1].rows > 0 /\ c.hist[2].rows > 0
              /\ Len(c.response[1].jobs) = c.hist[1].rows + c.hist[2].rows
              /\ search_runs[c.run_id].status = "pending"
              /\ jobs = {}
    /\ \E q \in Procs : ctx[q].op = "cleanup" /\ ctx[q].response = Some(NotConfigured)

\* C18 as claimed: a poll_queue invocation fetched at most batch_size runs,
\* oldest first; it has dealt with them in that order, one detail per run,
\* and is at the run after the last detail; and of the runs it claimed, at
\* most one is stored as running.
ClaimedBy(c) ==
    {j \in 1..Len(c.details) : c.details[j].status \in {"completed", "failed"}}
        \cup (IF c.pc \in {"claim", "done"} THEN {} ELSE {c.k})

C18_OneRunAtATime ==
    \A p \in Procs :
        LET c == ctx[p]
        IN  (c.op = "poll" /\ supabase)
            => /\ Len(c.runs) <= c.batch_size
               /\ \A i \in 1..Len(c.runs), j \in 1..Len(c.runs) :
                     i < j => /\ c.runs[i] # c.runs[j]
                              /\ search_runs[c.runs[i]].created_at
                                    <= search_runs[c.runs[j]].created_at
               /\ \A j \in 1..Len(c.details) : c.details[j].run_id = c.runs[j]
               /\ Len(c.details) = (IF c.pc = "done" THEN Len(c.runs) ELSE c.k - 1)
               /\ c.processed = Cardinality({j \in 1..Len(c.details) :
                                                c.details[j].status = "completed"})
               /\ Cardinality({j \in ClaimedBy(c) :
                                  search_runs[c.runs[j]].status = "running"}) <= 1

\* C19: a call of send_email_to_user that found its user with notifications
\* disabled returns {success: true, skipped: true, reason:
\* 'notifications_disabled'} and the email-send collaborator was not called,
\* whatever the email and keywords of the user.
UserLoaded == em.pc = "done" /\ em.user # None

C19_DisabledSkipped ==
    (UserLoaded /\ ~em.user[1].email_notifications_enabled)
    => /\ em.result = Some(Skipped("notifications_disabled"))
       /\ em.result[1].success /\ em.result[1].skipped
       /\ resend.calls = << >>

C19_Witness ==
    /\ UserLoaded
    /\ ~em.user[1].email_notifications_enabled
    /\ em.user[1].email = NoEmail
    /\ em.keywords = << >>
    /\ resend.api_key
    /\ em.result = Some(Skipped("notifications_disabled"))

\* C20 as claimed: a call of send_email_to_user that found its user with
\* notifications disabled, without email or without keywords returns a
\* skipped outcome that is no failure, and the email-send collaborator was
\* not called.
C20_ThreeSkips ==
    (/\ UserLoaded
     /\ \/ ~em.user[1].email_notifications_enabled
        \/ em.user[1].email = NoEmail
        \/ em.keywords = << >>)
    => /\ em.result[1].success /\ em.result[1].skipped
       /\ resend.calls = << >>

\* C21: send_job_email without an API key returns a failure with an error
\* and does not call the email-send collaborator; whatever the template and
\* the collaborator do, it returns a result, a failure when one of them
\* raised.
C21_ReturnsResult ==
    [][em.pc = "send" =>
         /\ em'.pc = "done"
         /\ em'.result # None
         /\ ~resend.api_key =>
               /\ ~em'.result[1].success
               /\ em'.result[1].error = "Email service is not configured"
               /\ resend' = resend
         /\ Len(resend'.calls) > Len(resend.calls) =>
               (em'.result[1].success <=> resend'.calls[Len(resend'.calls)].delivered)
         /\ (resend.api_key /\ resend' = resend) => ~em'.result[1].success]_vars

C21_Witness ==
    /\ em.pc = "done"
    /\ ~resend.api_key
    /\ em.result = Some(Failure("Email service is not configured"))
    /\ resend.calls = << >>


\* The indices of the details with one of the given statuses.
WithStatus(details, statuses) == {i \in 1..Len(details) : details[i].status \in statuses}

\* The loop of send_emails_to_subscribed_users returned.
BatchLooped == bt.pc = "done" /\ bt.users # << >>

\* C22: the loop of send_emails_to_subscribed_users takes the subscribed
\* users one after the other in their order, each one once: the details
\* written so far are those of the users before the current one, a user
\* whose select or send failed has its entry and the later users theirs, the
\* collaborator is called at most once for each user, and the result holds
\* one entry for every user.
C22_OneEntryPerUser ==
    /\ bt.pc = "user" => Len(bt.details) = bt.i - 1
    /\ bt.pc \in {"user", "done"} /\ bt.users # << >> =>
          /\ bt.users = SubscribedUsers
          /\ \A i \in 1..Len(bt.details) : bt.details[i].user_id = bt.users[i].id
          /\ Len(resend.calls) <= Len(bt.details)
          /\ Cardinality(WithStatus(bt.details, {"sent"}))
                = Cardinality({k \in 1..Len(resend.calls) : resend.calls[k].delivered})
    /\ BatchLooped =>
          /\ Len(bt.details) = Len(bt.users)
          /\ bt.result # None
          /\ bt.result[1].details = bt.details

C22_Witness ==
    /\ BatchLooped
    /\ Len(bt.users) = 3
    /\ bt.details[1].status = "error"
    /\ bt.details[2].status = "failed"
    /\ bt.details[3].status = "sent"

\* C23: the counts of the batch result account for every user: sent counts
\* the users whose detail is 'sent', failed those whose send failed or
\* raised, and a user skipped for lack of email or keywords is in neither.
C23_CountsAccount ==
    BatchLooped =>
        /\ bt.result[1].sent = Cardinality(WithStatus(bt.details, {"sent"}))
        /\ bt.result[1].failed = Cardinality(WithStatus(bt.details, {"failed", "error"}))
        /\ bt.result[1].sent + bt.result[1].failed
              + Cardinality(WithStatus(bt.details, {"skipped"})) = Len(bt.users)


\* The letters a and b differ at most in case.
SameLetter(a, b) == UpperChar(a) = UpperChar(b)

\* part occurs in text, whatever the case of the letters.
OccursIn(part, text) ==
    \E i \in 1..(Len(text) + 1 - Len(part)) :
        \A j \in 1..Len(part) : SameLetter(text[i + j - 1], part[j])

Upper(text) == [i \in 1..Len(text) |-> UpperChar(text[i])]

\* A loaded job of a new link of the user has a title in which a keyword
\* that is not blank occurs.
Selected(link) ==
    /\ link.user_id = em.user_id
    /\ link.status = "new"
    /\ link.job_id \in DOMAIN em.jobs_by_id
    /\ em.jobs_by_id[link.job_id].title # << >>
    /\ \E j \in 1..Len(em.keywords) :
          /\ Strip(em.keywords[j]) # << >>
          /\ OccursIn(Strip(em.keywords[j]), em.jobs_by_id[link.job_id].title)

\* C24: the jobs of a digest of send_email_to_user are the loaded jobs of
\* the user's new links that have a title in which some keyword, trimmed
\* and not empty, occurs whatever the case; writing the title or the
\* keywords in another case selects the same jobs.
C24_TitleMatch ==
    /\ \A k \in 1..Len(resend.calls) :
          {resend.calls[k].jobs[j].id : j \in 1..Len(resend.calls[k].jobs)}
             = {link.job_id : link \in {l \in link_rows : Selected(l)}}
    /\ \A job \in job_rows :
          LET upper_kw == [j \in 1..Len(em.keywords) |-> Upper(em.keywords[j])]
              lower_kw == [j \in 1..Len(em.keywords) |-> Lower(em.keywords[j])]
          IN  /\ Matches(Upper(job.title), em.keywords) = Matches(job.title, em.keywords)
              /\ Matches(Lower(job.title), em.keywords) = Matches(job.title, em.keywords)
              /\ Matches(job.title, upper_kw) = Matches(job.title, em.keywords)
              /\ Matches(job.title, lower_kw) = Matches(job.title, em.keywords)

\* The keyword "ops" selects "devOps" and "OPS" and leaves "Dev".
C24_Witness ==
    /\ em.keywords = <<TextOps>>
    /\ Len(resend.calls) = 1
    /\ {resend.calls[1].jobs[j].id : j \in 1..Len(resend.calls[1].jobs)} = {1, 2}
    /\ 4 \in DOMAIN em.jobs_by_id


\* The stored keywords of the user that send_email_to_user loaded.
StoredOf == users[em.user_id].keywords

\* C25: the keywords of send_email_to_user are the elements of a stored
\* list; the list that a stored text is the serialization of; the stored
\* text itself, as one keyword, when it does not parse or parses to something
\* else; and none for an absent, empty or blank value, and then the user is
\* skipped and the email-send collaborator is not called.
C25_Normalized ==
    em.user # None =>
        /\ StoredOf.kind = "list" => em.keywords = StoredOf.items
        /\ StoredOf = KwStr(TextJsonList) => em.keywords = <<TextOps>>
        /\ StoredOf = KwStr(TextJsonMixed) => em.keywords = <<TextDev, <<"5">> >>
        /\ StoredOf = KwStr(TextJsonEmptyList) => em.keywords = << >>
        /\ StoredOf \in {KwStr(TextOps), KwStr(TextJsonBroken), KwStr(TextJsonNumber),
                         KwStr(TextJsonString)}
              => em.keywords = <<StoredOf.text>>
        /\ StoredOf \in {KwAbsent, KwStr(TextBlank), KwList(<< >>)} => em.keywords = << >>
        /\ em.keywords = << >> =>
              /\ resend.calls = << >>
              /\ em.pc = "done"
              /\ ~(em.result[1].success /\ ~em.result[1].skipped)
        /\ (em.keywords = << >> /\ users[em.user_id].email_notifications_enabled
              /\ users[em.user_id].email # NoEmail)
              => em.result = Some(Skipped("no_keywords"))

\* A text that does not parse was used as one keyword and the digest went out.
C25_Witness ==
    /\ em.user # None
    /\ StoredOf = KwStr(TextJsonBroken)
    /\ em.keywords = <<TextJsonBroken>>
    /\ Len(resend.calls) = 1


\* The date of a job by the rule of the posted-date label: the posted date
\* when it parses, else the creation date when it parses, else the epoch.
EffectiveDate(job) ==
    IF job.date_posted.kind = "ok" THEN Instant(job.date_posted)
    ELSE IF job.created_at.kind = "ok" THEN Instant(job.created_at)
    ELSE 0

\* C26: the jobs of a digest of send_email_to_user are in the descending
\* order of their effective dates.
C26_NewestFirst ==
    \A k \in 1..Len(resend.calls) :
        \A a, b \in 1..Len(resend.calls[k].jobs) :
            a < b => EffectiveDate(resend.calls[k].jobs[a])
                        >= EffectiveDate(resend.calls[k].jobs[b])


\* The UTC day of a date, counted from the hours: the day d of which the
\* date is one of the twenty-four hours.
DayOf(date) ==
    CHOOSE d \in -2..(MaxDay + 2) :
        d * 24 <= date.day * 24 + date.hour - date.offset
            /\ date.day * 24 + date.hour - date.offset < (d + 1) * 24

\* The label that the claim gives to a job on a day; None where it says
\* nothing (an effective date after that day).
ClaimedLabel(job, day) ==
    LET effective == IF job.date_posted.kind = "ok" THEN Some(job.date_posted)
                     ELSE IF job.created_at.kind = "ok" THEN Some(job.created_at)
                     ELSE None
    IN  IF effective = None THEN Some(Today)
        ELSE IF DayOf(effective[1]) = day THEN Some(Today)
        ELSE IF DayOf(effective[1]) = day - 1 THEN Some(Yesterday)
        ELSE IF DayOf(effective[1]) <= day - 2
        THEN Some(DaysAgo(day - DayOf(effective[1])))
        ELSE None

\* The cards that render_email_template gave: the document, the card, the job.
RenderedCards ==
    {<<d, j>> \in (1..Len(rd.docs)) \X (1..Len(rd.jobs)) : ~rd.docs[d].html.raised}

\* C27: the posted-date label of every card is 'Today' when the effective
\* date of the job is the UTC day of the call or the job has no date that
\* parses, 'Yesterday' when it is the day before, and '{N} days ago' when
\* it is N >= 2 days before.
C27_PostedLabel ==
    \A c \in RenderedCards :
        LET claimed == ClaimedLabel(rd.jobs[c[2]], rd.docs[c[1]].day)
        IN  claimed # None => rd.docs[c[1]].html.cards[c[2]].posted_text = claimed[1]

\* A date of 23:00 at UTC-2 on day 1 is on UTC day 2, the day before day 3.
C27_Witness ==
    \E c \in RenderedCards :
        /\ rd.jobs[c[2]].date_posted = DateAt(1, 23, -2)
        /\ rd.docs[c[1]].day = 3
        /\ rd.docs[c[1]].html.cards[c[2]].posted_text = Yesterday

\* C28: two calls of render_email_template with the same jobs and recipient
\* give the same document.
C28_SameDocument ==
    \A a, b \in 1..Len(rd.docs) : rd.docs[a].html = rd.docs[b].html

\* C29: a card shows the salary range exactly when the job has a value for
\* salary_min and for salary_max, zero included, and the symbol in front is
\* the currency of the job, or '$' when it has none.
C29_SalaryShown ==
    \A c \in RenderedCards :
        LET job == rd.jobs[c[2]]
            card == rd.docs[c[1]].html.cards[c[2]]
        IN  /\ card.salary # None <=> (job.salary_min.k = "val" /\ job.salary_max.k = "val")
            /\ card.salary # None =>
                  card.salary[1].currency
                     = IF job.salary_currency.k = "val" THEN job.salary_currency.v
                       ELSE <<"$">>


\* Strategy 1 applies to the job and the page gave a logo.
PageLogo ==
    /\ lg.fetch = "logo"
    /\ lg.job_data.job_url.view
    /\ lg.job_data.job_url.host = <<"www", "linkedin", "com">>

\* C30: get_logo_for_job returns a URL when the company name is not empty
\* and nothing only when it is empty, whatever the fetch of the page and
\* the probe of the candidate gave; the result is the logo of the page when
\* the fetch found one, else the logo-service candidate when the probe found
\* an image, else the URL of the second logo service.
C30_AlwaysSomeUrl ==
    lg.pc = "done" =>
        /\ lg.job_data.company # << >> <=> lg.result # None
        /\ lg.result # None =>
              lg.result[1].service
                 = IF PageLogo THEN "linkedin"
                   ELSE IF lg.probe = "image" THEN "clearbit"
                   ELSE "logo.dev"

\* The fetch of the page raised and the probe timed out: the second logo
\* service is the result.
C30_Witness ==
    /\ lg.pc = "done"
    /\ lg.fetch = "raise"
    /\ lg.probe = "raise"
    /\ lg.job_data.company = <<"D", "e", "v", " ", "O", "p", "s", "!">>
    /\ lg.result = Some(LogoUrl("logo.dev", <<Lower(TextDev) \o TextOps, "com">>))


\* C31: when fetch_logos_for_jobs returns, its result is as long as its
\* input and holds at every position the logo that the worker of the job at
\* that position returned.
C31_InputOrder ==
    fl.pc = "done" =>
        /\ Len(fl.results) = Len(fl.jobs)
        /\ \A i \in 1..Len(fl.jobs) :
              ~fl.resolved[i][1].raised => fl.results[i] = fl.resolved[i][1].url

IncrementStep(p) == ctx[p].pc = "inc_write" /\ ctx'[p].pc # "inc_write"

\* The step of instance p is a call of update_search_run_status that sets a
\* status and passes no jobs_found.
StatusStep(p) ==
    \/ ctx[p].pc = "idle" /\ ctx'[p].op = "scrape"
    \/ FinalizingStep(p)
    \/ ctx[p].pc = "map" /\ ctx'[p].pc \notin {"map", "poll_except"}
    \/ ctx[p].pc = "poll_except" /\ ctx'[p].pc # "poll_except"
    \/ ctx[p].pc = "sweep" /\ ctx'[p].updated_count # ctx[p].updated_count

\* C33: the update with increment_only changes only jobs_found of a run
\* and leaves its status, started_at, completed_at and error_message; an
\* update that sets a status and is given no jobs_found leaves jobs_found.
C33_UpdateFrame ==
    [][\A p \in Procs : \A r \in RunIds :
          /\ IncrementStep(p)
                => /\ search_runs'[r].status = search_runs[r].status
                   /\ search_runs'[r].started_at = search_runs[r].started_at
                   /\ search_runs'[r].completed_at = search_runs[r].completed_at
                   /\ search_runs'[r].error_message = search_runs[r].error_message
          /\ StatusStep(p)
                => search_runs'[r].jobs_found = search_runs[r].jobs_found]_vars

C33_Witness ==
    \E p \in Procs :
        LET c == ctx[p]
        IN  /\ NormalEnd(c) /\ Tracked(c) /\ c.user_id # NoUser
            /\ search_runs[c.run_id].jobs_found > c.jf0
            /\ search_runs[c.run_id].jobs_found > 0
            /\ search_runs[c.run_id].status = "success"
            /\ search_runs[c.run_id].started_at # None

\* C34: when the sweep of cleanup_stuck_searches comes to write a run that
\* its own pipeline has finalized (success or failed) since the scan, the
\* write changes neither the status nor the error_message of that run.
C34_SweepOnlyAbandoned ==
    [][\A p \in Procs :
          LET c == ctx[p]
              r == c.stuck_searches[c.k]
          IN  (/\ c.op = "cleanup" /\ c.pc = "sweep" /\ supabase
               /\ ctx'[p].updated_count = c.updated_count + 1
               /\ search_runs[r].status \in {"success", "failed"})
              => /\ search_runs'[r].status = search_runs[r].status
                 /\ search_runs'[r].error_message = search_runs[r].error_message]_vars

\* C35: a run whose stored status is success has no error_message.
C35_SuccessWithoutError ==
    \A r \in RunIds :
        search_runs[r].status = "success" => search_runs[r].error_message = None

\* C36: an invocation of scrape_jobs for a tracked run that has ended, by
\* its response or by an exception, has performed the finalizing status
\* write exactly once.
C36_FinalizedOnce ==
    \A p \in Procs :
        LET c == ctx[p]
        IN  (/\ Tracked(c) /\ c.response # None
             /\ c.pc \in {"done", "returned", "poll_except"})
            => c.finals = 1

\* The runs a poll_queue invocation has claimed and is done with.
Processed(c) ==
    {c.details[j].run_id : j \in {k \in 1..Len(c.details) :
                                     c.details[k].status \in {"completed", "failed"}}}

\* C37: every run a poll_queue invocation claimed and is done with is
\* stored as success or failed, while the invocation goes on and when it
\* has returned; no claimed run is left running.
C37_ClaimedRunsTerminal ==
    \A p \in Procs :
        LET c == ctx[p]
        IN  (c.op = "poll" /\ supabase)
            => \A r \in Processed(c) : search_runs[r].status \in {"success", "failed"}

\* The jobs send_email_to_user selects for a user: the new links of the
\* user with their jobs, filtered by the normalized keywords.
PerUserSelection(user_id, raw_keywords) ==
    LET user_jobs_list == NewUserJobs(link_rows, user_id)
    IN  FilterJobs(user_jobs_list, JobsById(job_rows, user_jobs_list),
                   NormalizeKeywords(raw_keywords))

\* C38: the jobs the batch path hands to the email-send collaborator for a
\* user are the jobs the per-user path selects for the same user, the same
\* new links and the same stored keywords.
C38_SameSelection ==
    [][(bt.pc = "user" /\ Len(resend'.calls) = Len(resend.calls) + 1)
          => LET user == bt.users[bt.i]
                 call == resend'.calls[Len(resend'.calls)]
             IN  Range(call.jobs) = Range(PerUserSelection(user.id, user.keywords))]_vars

\* The last iteration of the per-site loop of the invocation got rows, its
\* logo fetch raised, and the iteration is over.
LogoFetchFailed(c) ==
    /\ c.op = "scrape" /\ c.hist # << >>
    /\ c.hist[Len(c.hist)].outcome = "rows"
    /\ c.hist[Len(c.hist)].logos = "raised"
    /\ c.pc \in {"site", "finalize", "done"}

\* C39: a site whose logo fetch raised is completed all the same: its jobs
\* are the last of all_jobs_list, each with no logo, they are stored and
\* linked to the user when the request has one, their number is in the
\* stored jobs_found of a tracked run, and the status of the site starts
\* with "completed".
C39_LogoFailureTolerated ==
    \A p \in Procs :
        LET c == ctx[p]
            last == c.hist[Len(c.hist)]
            n == Len(c.all_jobs_list)
        IN  LogoFetchFailed(c)
            => /\ StartsWithCompleted(c.site_statuses[last.site])
               /\ n >= last.rows
               /\ \A j \in 1..last.rows :
                     LET job == c.all_jobs_list[n - last.rows + j]
                     IN  /\ job.job_url = <<last.site, j>>
                         /\ job.company_logo_url = None
                         /\ (c.user_id # NoUser /\ supabase)
                               => /\ job.job_url \in jobs
                                  /\ <<c.user_id, job.job_url>> \in user_jobs
               /\ (c.user_id # NoUser /\ supabase)
                     => /\ last.saved = last.rows
                        /\ c.site_statuses[last.site] = StCompleted(last.rows)
               /\ (Tracked(c) /\ c.user_id # NoUser)
                     => search_runs[c.run_id].jobs_found
                           = c.jf0 + SeqSum(HistSaved(c.hist))

C39_Witness ==
    \E p \in Procs :
        LET c == ctx[p]
        IN  /\ LogoFetchFailed(c) /\ NormalEnd(c) /\ Tracked(c)
            /\ c.user_id # NoUser
            /\ Len(c.hist) = 2
            /\ c.hist[1].logos = "ok"
            /\ c.hist[2].rows = 2
            /\ search_runs[c.run_id].jobs_found = c.hist[1].rows + 2
            /\ search_runs[c.run_id].status = "success"
            /\ c.response[1].total_results = c.hist[1].rows + 2

====
